---- MODULE Spec2Model ----
(***************************************************************************)
(* Calibration validation / provider and deck-conflict checking of the     *)
(* opentrons api package.                                                  *)
(*                                                                         *)
(* Matrices are numpy arrays: a shape (a sequence of dimension sizes) and  *)
(* the entries in row-major order.  Entries are small integers; for such   *)
(* matrices numpy's SVD-with-tolerance rank is the exact rank, which is    *)
(* what matrix_rank computes here (largest non-vanishing minor).           *)
(***************************************************************************)
EXTENDS Integers, Sequences, FiniteSets, TLC

\* ------------------------------------------------------------------ bounds
MaxEntry == 2

\* ------------------------------------------------------- program constants
ZMin == 16
ZMax == 34

\* ------------------------------------------------------------ numpy arrays
NdArray(shape, data) == [shape |-> shape, data |-> data]

Ndim(A) == Len(A.shape)

\* A[i][j], 1-based, of a two-dimensional array.
At(A, i, j) == A.data[(i - 1) * A.shape[2] + j]

Abs(x) == IF x < 0 THEN -x ELSE x

MinOf(S) == CHOOSE x \in S : \A y \in S : x <= y

RECURSIVE SumOver(_, _, _, _, _)
RECURSIVE DetSub(_, _, _)
\* Laplace expansion of the minor on rows R and columns C along its first row.
DetSub(A, R, C) ==
    IF R = {} THEN 1
    ELSE SumOver(A, MinOf(R), R, C, C)

SumOver(A, i, R, C, todo) ==
    IF todo = {} THEN 0
    ELSE LET j == MinOf(todo)
             sign == IF Cardinality({k \in C : k < j}) % 2 = 0 THEN 1 ELSE -1
         IN  sign * At(A, i, j) * DetSub(A, R \ {i}, C \ {j})
             + SumOver(A, i, R, C, todo \ {j})

SubsetsOfSize(S, k) == {T \in SUBSET S : Cardinality(T) = k}

\* np.linalg.matrix_rank of a two-dimensional array.
matrix_rank(A) ==
    LET rows == 1..A.shape[1]
        cols == 1..A.shape[2]
        m == IF A.shape[1] < A.shape[2] THEN A.shape[1] ELSE A.shape[2]
        full(k) == \E R \in SubsetsOfSize(rows, k) :
                      \E C \in SubsetsOfSize(cols, k) : DetSub(A, R, C) # 0
    IN  IF \E k \in 1..m : full(k)
        THEN CHOOSE k \in 1..m : full(k) /\ \A l \in (k + 1)..m : ~full(l)
        ELSE 0

\* np.array_equal
array_equal(A, B) == A.shape = B.shape /\ A.data = B.data

\* linal.identity_deck_transform(): the canonical identity of the legacy
\* (4x4 affine) deck transform.
identity_deck_transform ==
    NdArray(<<4, 4>>, <<1, 0, 0, 0,  0, 1, 0, 0,  0, 0, 1, 0,  0, 0, 0, 1>>)

\* config.robot_configs.default_deck_calibration(): the identity attitude.
default_deck_calibration ==
    NdArray(<<3, 3>>, <<1, 0, 0,  0, 1, 0,  0, 0, 1>>)

\* ------------------------------------------------------- DeckTransformState
OK == "OK"
SINGULARITY == "SINGULARITY"
IDENTITY == "IDENTITY"
BAD_CALIBRATION == "BAD_CALIBRATION"
DeckTransformState == {OK, SINGULARITY, IDENTITY, BAD_CALIBRATION}

\* Exceptions a call can end with instead of returning.
ValueError == "raise ValueError"
IndexError == "raise IndexError"

NoTime == "None"
Times == {"t1", "t2"}

\* ------------------------------------------------------------ DeckCalibration
DeckCalibration(attitude, source, last_modified) ==
    [attitude |-> attitude, source |-> source, last_modified |-> last_modified]

\* Variant that looks at last_modified before the rank.
validate_attitude_lm_first(deck_cal) ==
    LET curr_cal == deck_cal.attitude
    IN  IF Ndim(curr_cal) # 2 THEN ValueError
        ELSE IF deck_cal.last_modified = NoTime THEN IDENTITY
        ELSE IF curr_cal.shape[1] # matrix_rank(curr_cal) THEN SINGULARITY
        ELSE OK

validate_attitude_deck_calibration(deck_cal) ==
    LET curr_cal == deck_cal.attitude
    IN  IF Ndim(curr_cal) # 2 THEN ValueError      \* row, _ = curr_cal.shape
        ELSE LET row == curr_cal.shape[1]
                 rank == matrix_rank(curr_cal)
             IN  IF row # rank THEN SINGULARITY
                 ELSE IF deck_cal.last_modified = NoTime THEN IDENTITY
                 ELSE OK

\* Variant with the band's bounds excluded (z <= 16 or z >= 34 out of range).
validate_gantry_open_band(gantry_cal) ==
    LET curr_cal == gantry_cal
    IN  IF Ndim(curr_cal) # 2 THEN ValueError
        ELSE IF curr_cal.shape[1] < 3 THEN IndexError
        ELSE LET z == Abs(At(curr_cal, 3, curr_cal.shape[2]))
             IN  IF curr_cal.shape[1] # matrix_rank(curr_cal) THEN SINGULARITY
                 ELSE IF array_equal(curr_cal, identity_deck_transform) THEN IDENTITY
                 ELSE IF z <= ZMin \/ z >= ZMax THEN BAD_CALIBRATION
                 ELSE OK

\* Variant that tests the Z range before the identity.
validate_gantry_range_first(gantry_cal) ==
    LET curr_cal == gantry_cal
    IN  IF Ndim(curr_cal) # 2 THEN ValueError
        ELSE IF curr_cal.shape[1] < 3 THEN IndexError
        ELSE LET z == Abs(At(curr_cal, 3, curr_cal.shape[2]))
             IN  IF curr_cal.shape[1] # matrix_rank(curr_cal) THEN SINGULARITY
                 ELSE IF z < ZMin \/ z > ZMax THEN BAD_CALIBRATION
                 ELSE IF array_equal(curr_cal, identity_deck_transform) THEN IDENTITY
                 ELSE OK

\* Variant that reads Z from the fourth row (curr_cal[3][-1]).
validate_gantry_fourth_row(gantry_cal) ==
    LET curr_cal == gantry_cal
    IN  IF Ndim(curr_cal) # 2 THEN ValueError
        ELSE IF curr_cal.shape[1] < 4 THEN IndexError
        ELSE LET z == Abs(At(curr_cal, 4, curr_cal.shape[2]))
             IN  IF curr_cal.shape[1] # matrix_rank(curr_cal) THEN SINGULARITY
                 ELSE IF array_equal(curr_cal, identity_deck_transform) THEN IDENTITY
                 ELSE IF z < ZMin \/ z > ZMax THEN BAD_CALIBRATION
                 ELSE OK

validate_gantry_calibration(gantry_cal) ==
    LET curr_cal == gantry_cal
    IN  IF Ndim(curr_cal) # 2 THEN ValueError      \* row, _ = curr_cal.shape
        ELSE IF curr_cal.shape[1] < 3 THEN IndexError   \* curr_cal[2][-1]
        ELSE LET row == curr_cal.shape[1]
                 rank == matrix_rank(curr_cal)
                 id_matrix == identity_deck_transform
                 z == Abs(At(curr_cal, 3, curr_cal.shape[2]))
                 outofrange == z < ZMin \/ z > ZMax
             IN  IF row # rank THEN SINGULARITY
                 ELSE IF array_equal(curr_cal, id_matrix) THEN IDENTITY
                 ELSE IF outofrange THEN BAD_CALIBRATION
                 ELSE OK

\* Variant that takes the 4x4's last (translation) column as third column.
migrate_affine_last_column(gantry_cal) ==
    NdArray(<<3, 3>>,
            <<At(gantry_cal, 1, 1), At(gantry_cal, 1, 2), At(gantry_cal, 1, 4),
              At(gantry_cal, 2, 1), At(gantry_cal, 2, 2), At(gantry_cal, 2, 4),
              0, 0, 1>>)

\* Rows 0 and 1, columns 0..2 of the 4x4 input are unmasked and copied to
\* rows 0 and 1 of a zeroed 3x3 array; entry 8 is set to 1.
migrate_affine_xy_to_attitude(gantry_cal) ==
    NdArray(<<3, 3>>,
            <<At(gantry_cal, 1, 1), At(gantry_cal, 1, 2), At(gantry_cal, 1, 3),
              At(gantry_cal, 2, 1), At(gantry_cal, 2, 2), At(gantry_cal, 2, 3),
              0, 0, 1>>)

\* ---------------------------------------------------------------- state
VARIABLES
    fn,             \* pure-function harness: the function applied ("idle": none yet)
    arg,            \* its matrix argument, as np.array() sees it
    arg_lm,         \* last_modified of the DeckCalibration that carries arg
    res,            \* what the call returned or raised
    storage,        \* the persisted deck attitude record: {} or {record}
    legacy,         \* the legacy gantry calibration of the robot config: {} or {4x4}
    robot_calibration,  \* provider -> its _robot_calibration.deck_calibration
    cache,          \* the lru_cache(1) of RobotCalibrationProvider._validate
    memo,           \* history: provider -> result of its latest validate_calibration
                    \* since its last set/reset ("none": there is none)
    last,           \* history: the latest call on a provider
    labware,        \* engine state: loaded labware id -> its record
    modules,        \* engine state: loaded module id -> its record
    deck_last,      \* history: the latest load and what check() did for it
    move,           \* history: the engine state the latest
                    \* check_safe_for_pipette_movement read, and what it did
    _run_id,        \* MaintenanceEngineStore._run_id: {} (None) or {run id}
    _engine,        \* MaintenanceEngineStore._engine: {} (None) or {engine}
    okay_to_clear,  \* the stored engine's commands.get_is_okay_to_clear()
    engines,        \* history: the ProtocolEngines constructed so far
    store_last,     \* history: the latest call on the store, the state it
                    \* found and what it did
    calls,          \* caller -> the run id of its create call that awaits
                    \* create_protocol_engine: {} (none) or {run id}
    pending,        \* the set/reset of a provider that has cleared the cache
                    \* and not yet assigned: {} or {[op, p, rc]}
    raced,          \* history: a validate_calibration overlapped the latest
                    \* set/reset
    computing,      \* the validate_calibration that missed the cache and has
                    \* not yet stored its result: {} or {[p, val, overlapped]}
    clean,          \* history: the latest validate_calibration to return
                    \* overlapped no set/reset
    _state,         \* ExecutionManager._state
    waiters,        \* coroutine -> where it is in wait_for_is_running
    _cancellable_tasks, \* ExecutionManager._cancellable_tasks
    exec_last       \* history: the latest call on the execution manager to end

fnVars == <<fn, arg, arg_lm, res>>
calVars == <<storage, legacy, robot_calibration, cache, memo, last>>
deckVars == <<labware, modules, deck_last>>
moveVars == <<move>>
storeVars == <<_run_id, _engine, okay_to_clear, engines, store_last>>
asyncVars == <<calls>>
raceVars == <<pending, raced, computing, clean>>
execVars == <<_state, waiters, _cancellable_tasks, exec_last>>

vars == <<fnVars, calVars, deckVars, moveVars, storeVars, asyncVars, raceVars, execVars>>

\* ------------------------------------------------- inputs of the functions
ZVals ==
    {0, 10, 25, ZMin - 1, ZMin, ZMin + 1, ZMax - 1, ZMax, ZMax + 1,
     -(ZMin - 1), -ZMin, -25, -ZMax, -(ZMax + 1)}

\* Legacy 4x4 affine transforms (List[List[float]] with four rows of four).
GantryInputs ==
    {NdArray(<<4, 4>>, <<a, b, c, tx,  d, e, 0, 0,  0, 0, k, z,  0, 0, 0, w>>) :
        a \in 0..MaxEntry, b \in 0..1, c \in 0..1, tx \in 0..1,
        d \in 0..1, e \in 0..MaxEntry, k \in 0..1, z \in ZVals, w \in 0..1}

\* 3x3 attitude matrices.
AttitudeInputs ==
    {NdArray(<<3, 3>>, <<a, b, c,  d, e, 0>> \o bottom) :
        a \in 0..MaxEntry, b \in 0..MaxEntry, c \in 0..1,
        d \in 0..MaxEntry, e \in 0..MaxEntry,
        bottom \in {<<0, 0, 1>>, <<0, 0, 0>>, <<1, 1, 0>>}}

\* Inputs that are not 3x3 / 4x4: an empty list, a flat list, matrices with
\* fewer than three rows, a non-square matrix.
OddShapeInputs ==
    {NdArray(<<0>>, <<>>),
     NdArray(<<3>>, <<1, 0, 0>>),
     NdArray(<<1, 1>>, <<1>>),
     NdArray(<<2, 2>>, <<1, 0,  0, 1>>),
     NdArray(<<2, 2>>, <<1, 1,  1, 1>>),
     NdArray(<<2, 4>>, <<1, 0, 0, 0,  0, 1, 0, 0>>),
     NdArray(<<3, 4>>, <<1, 0, 0, 0,  0, 1, 0, 0,  0, 0, 1, 25>>),
     NdArray(<<3, 4>>, <<1, 0, 0, 0,  1, 0, 0, 0,  0, 0, 1, 25>>)}

MatrixInputs == GantryInputs \cup AttitudeInputs \cup OddShapeInputs

NoCall ==
    [op |-> "none", p |-> 0, ret |-> "none", computed |-> FALSE,
     repeat |-> FALSE, prevret |-> "none"]

\* No provider constructed, nothing stored.
CalIdle ==
    /\ storage = {}
    /\ legacy = {}
    /\ robot_calibration = <<>>
    /\ cache = {}
    /\ memo = <<>>
    /\ last = NoCall

NoLoad ==
    [op |-> "none", id |-> "", location |-> [kind |-> "none", slotName |-> 0, id |-> ""],
     result |-> "none", blame |-> {}, examined |-> FALSE]

\* An empty deck.
DeckIdle ==
    /\ labware = <<>>
    /\ modules = <<>>
    /\ deck_last = NoLoad

NoMove ==
    [engine_state |-> [nozzle_layout_type |-> "EMPTY", primary_nozzle |-> "A1",
                       attached_tip |-> {}, ancestor_slot |-> 0,
                       highest_z_in_slot |-> <<>>, well_position_z |-> 0],
     raised |-> "none", message |-> ""]

\* No pipette movement checked yet.
MoveIdle == move = NoMove

NoStoreCall ==
    [op |-> "none", run_id |-> "", raised |-> "none",
     engine_before |-> {}, run_id_before |-> {}]

\* MaintenanceEngineStore.__init__: no run, no engine.
StoreIdle ==
    /\ _run_id = {}
    /\ _engine = {}
    /\ okay_to_clear = FALSE
    /\ engines = 0
    /\ store_last = NoStoreCall

\* The coroutines that call create on the store.
Callers == {"request-1", "request-2"}

\* No create call is awaiting its engine.
AsyncIdle == calls = [c \in Callers |-> {}]

\* No set or reset is under way.
RaceIdle ==
    /\ pending = {}
    /\ raced = FALSE
    /\ computing = {}
    /\ clean = TRUE

\* The coroutines that call wait_for_is_running, and the delay tasks do_delay
\* registers as cancellable.
Tasks == {"task-1", "task-2"}
DelayTasks == {"delay-1"}

\* A coroutine that is not inside wait_for_is_running.  `since` collects the
\* resume, reset and cancel calls that took effect since the coroutine blocked.
NotWaiting == [pc |-> "idle", since |-> {}]

\* No call on the execution manager has ended yet.
NoExecCall ==
    [op |-> "none", task |-> "", raised |-> "none", state_before |-> "RUNNING",
     blocked |-> FALSE, since |-> {}]

\* ExecutionManager.__init__: RUNNING, nobody waiting, nothing registered.
ExecIdle ==
    /\ _state = "RUNNING"
    /\ waiters = [t \in Tasks |-> NotWaiting]
    /\ _cancellable_tasks = {}
    /\ exec_last = NoExecCall

FnIdle ==
    /\ fn = "idle"
    /\ arg = identity_deck_transform
    /\ arg_lm = NoTime
    /\ res = "none"

InitFn ==
    /\ fn = "idle"
    /\ arg \in MatrixInputs
    /\ arg_lm \in {NoTime, "t1"}
    /\ res = "none"
    /\ CalIdle
    /\ DeckIdle
    /\ MoveIdle
    /\ StoreIdle
    /\ AsyncIdle
    /\ RaceIdle
    /\ ExecIdle

CallValidateAttitude ==
    /\ fn = "idle"
    /\ fn' = "validate_attitude_deck_calibration"
    /\ res' = validate_attitude_deck_calibration(DeckCalibration(arg, "user", arg_lm))
    /\ UNCHANGED <<arg, arg_lm, calVars, deckVars, moveVars, storeVars, asyncVars, raceVars, execVars>>

CallValidateGantry ==
    /\ fn = "idle"
    /\ fn' = "validate_gantry_calibration"
    /\ res' = validate_gantry_calibration(arg)
    /\ UNCHANGED <<arg, arg_lm, calVars, deckVars, moveVars, storeVars, asyncVars, raceVars, execVars>>

CallMigrate ==
    /\ fn = "idle"
    /\ arg.shape = <<4, 4>>
    /\ fn' = "migrate_affine_xy_to_attitude"
    /\ res' = migrate_affine_xy_to_attitude(arg)
    /\ UNCHANGED <<arg, arg_lm, calVars, deckVars, moveVars, storeVars, asyncVars, raceVars, execVars>>

NextFn == CallValidateAttitude \/ CallValidateGantry \/ CallMigrate

SpecFn == InitFn /\ [][NextFn]_vars

\* ======================================== calibration storage and provider
NumProviders == 2
Providers == 1..NumProviders

\* calibration_storage.get_robot_deck_attitude(): the stored record or None.
get_robot_deck_attitude(stor) == stor

\* calibration_storage.save_robot_deck_attitude(): replaces the stored record
\* by one holding the transform, stamped with the time of the save.
save_robot_deck_attitude(transform, source, now) ==
    {[attitude |-> transform, source |-> source, last_modified |-> now]}

\* Variant that migrates the legacy transform without validating it.
load_attitude_matrix_unvalidated(stor, leg, now) ==
    LET gantry_cal == CHOOSE g \in leg : TRUE
        stor2 == IF stor = {} /\ leg # {}
                 THEN save_robot_deck_attitude(
                          migrate_affine_xy_to_attitude(gantry_cal), "legacy", now)
                 ELSE stor
        rec == CHOOSE r \in stor2 : TRUE
    IN  [storage |-> stor2,
         deck_calibration |->
            IF stor2 # {}
            THEN DeckCalibration(rec.attitude, rec.source, rec.last_modified)
            ELSE DeckCalibration(default_deck_calibration, "default", NoTime)]

\* Variant that migrates the legacy calibration over a stored record.
load_attitude_matrix_legacy_first(stor, leg, now) ==
    LET gantry_cal == CHOOSE g \in leg : TRUE
        migrates == leg # {} /\ validate_gantry_calibration(gantry_cal) = OK
        stor2 == IF migrates
                 THEN save_robot_deck_attitude(
                          migrate_affine_xy_to_attitude(gantry_cal), "legacy", now)
                 ELSE stor
        rec == CHOOSE r \in stor2 : TRUE
    IN  [storage |-> stor2,
         deck_calibration |->
            IF stor2 # {}
            THEN DeckCalibration(rec.attitude, rec.source, rec.last_modified)
            ELSE DeckCalibration(default_deck_calibration, "default", NoTime)]

\* load_attitude_matrix(): the deck calibration it returns and the storage it
\* leaves.  stor is the storage, leg the legacy gantry calibration ({}: None),
\* now the time a save would stamp.
load_attitude_matrix(stor, leg, now) ==
    LET calibration_data == get_robot_deck_attitude(stor)
        gantry_cal == CHOOSE g \in leg : TRUE
        migrates == /\ calibration_data = {}
                    /\ leg # {}
                    /\ validate_gantry_calibration(gantry_cal) = OK
        stor2 == IF migrates
                 THEN save_robot_deck_attitude(
                          migrate_affine_xy_to_attitude(gantry_cal), "legacy", now)
                 ELSE stor
        calibration_data2 == IF migrates THEN get_robot_deck_attitude(stor2)
                             ELSE calibration_data
        rec == CHOOSE r \in calibration_data2 : TRUE
    IN  [storage |-> stor2,
         deck_calibration |->
            IF calibration_data2 # {}
            THEN DeckCalibration(rec.attitude, rec.source, rec.last_modified)
            ELSE DeckCalibration(default_deck_calibration, "default", NoTime)]

\* load()
load(stor, leg, now) == load_attitude_matrix(stor, leg, now)

\* build_temporary_identity_calibration()
build_temporary_identity_calibration ==
    DeckCalibration(default_deck_calibration, "default", NoTime)

\* _validate.cache_clear(): the cache is the decorated function's, one for
\* all instances.
cache_clear(c) == {}

Call(op, p, ret, computed) ==
    [op |-> op, p |-> p, ret |-> ret, computed |-> computed,
     repeat |-> FALSE, prevret |-> "none"]

\* RobotCalibrationProvider.__init__
ProviderInit(p) ==
    /\ p \notin DOMAIN robot_calibration
    /\ \E now \in Times :
          LET loaded == load(storage, legacy, now)
          IN  /\ robot_calibration' =
                    [q \in DOMAIN robot_calibration \cup {p} |->
                        IF q = p THEN loaded.deck_calibration
                        ELSE robot_calibration[q]]
              /\ storage' = loaded.storage
    /\ memo' = [q \in DOMAIN memo \cup {p} |-> IF q = p THEN "none" ELSE memo[q]]
    /\ last' = Call("__init__", p, "none", FALSE)
    /\ UNCHANGED <<legacy, cache, fnVars, deckVars, moveVars, storeVars, asyncVars, raceVars, execVars>>

reset_robot_calibration(p) ==
    /\ p \in DOMAIN robot_calibration
    /\ cache' = cache_clear(cache)
    /\ \E now \in Times :
          LET loaded == load(storage, legacy, now)
          IN  /\ robot_calibration' =
                    [robot_calibration EXCEPT ![p] = loaded.deck_calibration]
              /\ storage' = loaded.storage
    /\ memo' = [memo EXCEPT ![p] = "none"]
    /\ last' = Call("reset_robot_calibration", p, "none", FALSE)
    /\ UNCHANGED <<legacy, fnVars, deckVars, moveVars, storeVars, asyncVars, raceVars, execVars>>

\* Variant that keeps the memoized validation.
set_robot_calibration_keep_cache(p, rc) ==
    /\ p \in DOMAIN robot_calibration
    /\ robot_calibration' = [robot_calibration EXCEPT ![p] = rc]
    /\ memo' = [memo EXCEPT ![p] = "none"]
    /\ last' = Call("set_robot_calibration", p, "none", FALSE)
    /\ UNCHANGED <<cache, storage, legacy, fnVars, deckVars, moveVars, storeVars, asyncVars, raceVars, execVars>>

\* Variant that also writes the attitude to the calibration storage.
set_robot_calibration_persisting(p, rc) ==
    /\ p \in DOMAIN robot_calibration
    /\ cache' = cache_clear(cache)
    /\ robot_calibration' = [robot_calibration EXCEPT ![p] = rc]
    /\ \E now \in Times :
          storage' = save_robot_deck_attitude(rc.attitude, "user", now)
    /\ memo' = [memo EXCEPT ![p] = "none"]
    /\ last' = Call("set_robot_calibration", p, "none", FALSE)
    /\ UNCHANGED <<legacy, fnVars, deckVars, moveVars, storeVars, asyncVars, raceVars, execVars>>

set_robot_calibration(p, rc) ==
    /\ p \in DOMAIN robot_calibration
    /\ cache' = cache_clear(cache)
    /\ robot_calibration' = [robot_calibration EXCEPT ![p] = rc]
    /\ memo' = [memo EXCEPT ![p] = "none"]
    /\ last' = Call("set_robot_calibration", p, "none", FALSE)
    /\ UNCHANGED <<storage, legacy, fnVars, deckVars, moveVars, storeVars, asyncVars, raceVars, execVars>>

\* Variant without the lru_cache decorator: every call validates.
validate_calibration_uncached(p) ==
    /\ p \in DOMAIN robot_calibration
    /\ LET ret == validate_attitude_deck_calibration(robot_calibration[p])
       IN  /\ last' = [op |-> "validate_calibration", p |-> p, ret |-> ret,
                       computed |-> TRUE, repeat |-> memo[p] # "none",
                       prevret |-> memo[p]]
           /\ memo' = [memo EXCEPT ![p] = ret]
    /\ UNCHANGED <<cache, robot_calibration, storage, legacy, fnVars, deckVars, moveVars, storeVars, asyncVars, raceVars, execVars>>

\* validate_calibration -> _validate, memoized by lru_cache(1) under the key
\* (self,): a hit returns the stored value, a miss runs
\* validate_attitude_deck_calibration and stores its result, evicting the
\* cache's only other entry.
validate_calibration(p) ==
    /\ p \in DOMAIN robot_calibration
    /\ LET hit == {e \in cache : e.key = p}
           ret == IF hit # {} THEN (CHOOSE e \in hit : TRUE).val
                  ELSE validate_attitude_deck_calibration(robot_calibration[p])
       IN  /\ cache' = IF hit # {} THEN cache ELSE {[key |-> p, val |-> ret]}
           /\ last' = [op |-> "validate_calibration", p |-> p, ret |-> ret,
                       computed |-> hit = {}, repeat |-> memo[p] # "none",
                       prevret |-> memo[p]]
           /\ memo' = [memo EXCEPT ![p] = ret]
    /\ UNCHANGED <<robot_calibration, storage, legacy, fnVars, deckVars, moveVars, storeVars, asyncVars, raceVars, execVars>>

\* Attitudes a calibration run can produce or a caller can set.
CalAttitudes ==
    {default_deck_calibration,
     NdArray(<<3, 3>>, <<1, 1, 0,  0, 1, 0,  0, 0, 1>>),
     NdArray(<<3, 3>>, <<1, 1, 0,  1, 1, 0,  0, 0, 1>>)}

\* save_attitude_matrix(): the solved attitude is written to the storage.
save_attitude_matrix(attitude) ==
    /\ \E now \in Times :
          storage' = save_robot_deck_attitude(attitude, "user", now)
    /\ last' = Call("save_attitude_matrix", 0, "none", FALSE)
    /\ UNCHANGED <<legacy, robot_calibration, cache, memo, fnVars, deckVars, moveVars, storeVars, asyncVars, raceVars, execVars>>

\* Calibrations handed to set_robot_calibration.
SetArgs ==
    {DeckCalibration(a, "user", lm) : a \in CalAttitudes, lm \in {NoTime} \cup Times}
        \cup {build_temporary_identity_calibration}

\* Legacy gantry calibrations a robot config can hold: none, the identity, a
\* plausible one, one with Z out of range, a singular one.
LegacyCals ==
    {{}, {identity_deck_transform},
     {NdArray(<<4, 4>>, <<1, 0, 1, 3,  0, 1, 0, 5,  0, 0, 1, -25,  0, 0, 0, 1>>)},
     {NdArray(<<4, 4>>, <<1, 0, 0, 3,  0, 1, 0, 5,  0, 0, 1, 10,  0, 0, 0, 1>>)},
     {NdArray(<<4, 4>>, <<1, 0, 0, 3,  1, 0, 0, 5,  0, 0, 1, -25,  0, 0, 0, 1>>)}}

\* Deck attitude records the storage can hold at start-up.
StoredRecords ==
    {{}} \cup {save_robot_deck_attitude(a, "user", t) : a \in CalAttitudes, t \in Times}

Init ==
    /\ storage \in StoredRecords
    /\ legacy \in LegacyCals
    /\ robot_calibration = <<>>
    /\ cache = {}
    /\ memo = <<>>
    /\ last = NoCall
    /\ FnIdle
    /\ DeckIdle
    /\ MoveIdle
    /\ StoreIdle
    /\ AsyncIdle
    /\ RaceIdle
    /\ ExecIdle

ProviderStep(p) ==
    \/ ProviderInit(p)
    \/ reset_robot_calibration(p)
    \/ \E rc \in SetArgs : set_robot_calibration(p, rc)
    \/ validate_calibration(p)

\* One provider, its operations run one at a time, and calibration runs that
\* save a new attitude.
Next ==
    \/ ProviderStep(1)
    \/ \E a \in CalAttitudes : save_attitude_matrix(a)

Spec == Init /\ [][Next]_vars

\* Several provider instances in one process: functools.lru_cache on the
\* method _validate makes one cache for the class, so they all share `cache`.
NextMulti ==
    \/ \E p \in Providers : ProviderStep(p)
    \/ \E a \in CalAttitudes : save_attitude_matrix(a)

SpecMulti == Init /\ [][NextMulti]_vars

\* ---- set_robot_calibration, reset_robot_calibration and validate_calibration
\* statement by statement, for a caller that runs validate_calibration on
\* another thread with no lock: set and reset first run
\* self._validate.cache_clear() and then assign; a validate_calibration that
\* misses the cache reads the calibration, validates it and then stores the
\* result.

\* The validate_calibration in flight, marked as overlapping a set/reset.
Overlapped == {[c EXCEPT !.overlapped = TRUE] : c \in computing}

\* Variant whose first statement leaves the cache alone.
set_robot_calibration_clear_skipped(p, rc) ==
    /\ p \in DOMAIN robot_calibration
    /\ pending = {}
    /\ pending' = {[op |-> "set_robot_calibration", p |-> p, rc |-> {rc}]}
    /\ raced' = (computing # {})
    /\ computing' = Overlapped
    /\ UNCHANGED <<cache, robot_calibration, storage, legacy, memo, last, clean, fnVars, deckVars, moveVars, storeVars, asyncVars, execVars>>

set_robot_calibration_clear(p, rc) ==
    /\ p \in DOMAIN robot_calibration
    /\ pending = {}
    /\ cache' = cache_clear(cache)
    /\ pending' = {[op |-> "set_robot_calibration", p |-> p, rc |-> {rc}]}
    /\ raced' = (computing # {})
    /\ computing' = Overlapped
    /\ UNCHANGED <<robot_calibration, storage, legacy, memo, last, clean, fnVars, deckVars, moveVars, storeVars, asyncVars, execVars>>

set_robot_calibration_assign ==
    /\ \E call \in pending :
          /\ call.op = "set_robot_calibration"
          /\ robot_calibration' =
                [robot_calibration EXCEPT ![call.p] = CHOOSE rc \in call.rc : TRUE]
          /\ memo' = [memo EXCEPT ![call.p] = "none"]
          /\ last' = Call("set_robot_calibration", call.p, "none", FALSE)
    /\ pending' = {}
    /\ UNCHANGED <<cache, storage, legacy, raced, computing, clean, fnVars, deckVars, moveVars, storeVars, asyncVars, execVars>>

reset_robot_calibration_clear(p) ==
    /\ p \in DOMAIN robot_calibration
    /\ pending = {}
    /\ cache' = cache_clear(cache)
    /\ pending' = {[op |-> "reset_robot_calibration", p |-> p, rc |-> {}]}
    /\ raced' = (computing # {})
    /\ computing' = Overlapped
    /\ UNCHANGED <<robot_calibration, storage, legacy, memo, last, clean, fnVars, deckVars, moveVars, storeVars, asyncVars, execVars>>

reset_robot_calibration_load ==
    /\ \E call \in pending, now \in Times :
          /\ call.op = "reset_robot_calibration"
          /\ LET loaded == load(storage, legacy, now)
             IN  /\ robot_calibration' =
                        [robot_calibration EXCEPT ![call.p] = loaded.deck_calibration]
                 /\ storage' = loaded.storage
          /\ memo' = [memo EXCEPT ![call.p] = "none"]
          /\ last' = Call("reset_robot_calibration", call.p, "none", FALSE)
    /\ pending' = {}
    /\ UNCHANGED <<cache, legacy, raced, computing, clean, fnVars, deckVars, moveVars, storeVars, asyncVars, execVars>>

\* validate_calibration up to the cache lookup: a hit returns the stored
\* value; a miss validates the calibration the provider holds now.
validate_calibration_lookup(p) ==
    /\ p \in DOMAIN robot_calibration
    /\ computing = {}
    /\ raced' = (raced \/ pending # {})
    /\ LET hit == {e \in cache : e.key = p}
       IN  IF hit # {}
           THEN /\ last' = [op |-> "validate_calibration", p |-> p,
                            ret |-> (CHOOSE e \in hit : TRUE).val, computed |-> FALSE,
                            repeat |-> memo[p] # "none", prevret |-> memo[p]]
                /\ memo' = [memo EXCEPT ![p] = (CHOOSE e \in hit : TRUE).val]
                /\ clean' = (pending = {})
                /\ UNCHANGED computing
           ELSE /\ computing' =
                      {[p |-> p,
                        val |-> validate_attitude_deck_calibration(robot_calibration[p]),
                        overlapped |-> pending # {}]}
                /\ UNCHANGED <<last, memo, clean>>
    /\ UNCHANGED <<cache, robot_calibration, storage, legacy, pending, fnVars, deckVars, moveVars, storeVars, asyncVars, execVars>>

\* The miss stores its result in the cache and returns it.
validate_calibration_store ==
    /\ \E c \in computing :
          /\ cache' = {[key |-> c.p, val |-> c.val]}
          /\ last' = [op |-> "validate_calibration", p |-> c.p, ret |-> c.val,
                      computed |-> TRUE, repeat |-> memo[c.p] # "none",
                      prevret |-> memo[c.p]]
          /\ memo' = [memo EXCEPT ![c.p] = c.val]
          /\ clean' = (~c.overlapped /\ pending = {})
    /\ computing' = {}
    /\ raced' = (raced \/ pending # {})
    /\ UNCHANGED <<robot_calibration, storage, legacy, pending, fnVars, deckVars, moveVars, storeVars, asyncVars, execVars>>

\* One provider whose set and reset run on one thread and whose
\* validate_calibration runs on another, with no lock between them.
NextRace ==
    \/ ProviderInit(1)
    \/ \E rc \in SetArgs : set_robot_calibration_clear(1, rc)
    \/ set_robot_calibration_assign
    \/ reset_robot_calibration_clear(1)
    \/ reset_robot_calibration_load
    \/ validate_calibration_lookup(1)
    \/ validate_calibration_store

SpecRace == Init /\ [][NextRace]_vars

\* ===================================================== deck conflict checking
MaxItems == 3

\* The OT-2 deck: slots 1..12 in rows of three, slot 1 front-left.
DeckSlots == 1..12

\* Labware locations (protocol_engine.types).
DeckSlotLocation(s) == [kind |-> "DeckSlotLocation", slotName |-> s, id |-> ""]
ModuleLocation(m) == [kind |-> "ModuleLocation", slotName |-> 0, id |-> m]
OnLabwareLocation(l) == [kind |-> "OnLabwareLocation", slotName |-> 0, id |-> l]
OFF_DECK_LOCATION == [kind |-> "offDeck", slotName |-> 0, id |-> ""]

ModuleModels == {"thermocyclerModuleV2", "heaterShakerModuleV1", "temperatureModuleV2"}

\* ModuleModel.as_type
as_type(model) ==
    IF model \in {"temperatureModuleV1", "temperatureModuleV2"} THEN "temperatureModuleType"
    ELSE IF model \in {"magneticModuleV1", "magneticModuleV2"} THEN "magneticModuleType"
    ELSE IF model \in {"thermocyclerModuleV1", "thermocyclerModuleV2"}
        THEN "thermocyclerModuleType"
    ELSE IF model = "heaterShakerModuleV1" THEN "heaterShakerModuleType"
    ELSE "magneticBlockType"

\* The deck items of opentrons.motion_planning.deck_conflict.
Labware(name_for_errors, highest_z, is_fixed_trash) ==
    [kind |-> "Labware", name_for_errors |-> name_for_errors, highest_z |-> highest_z,
     is_fixed_trash |-> is_fixed_trash, is_semi_configuration |-> FALSE]

HeaterShakerModule(name_for_errors, highest_z_including_labware) ==
    [kind |-> "HeaterShakerModule", name_for_errors |-> name_for_errors,
     highest_z |-> highest_z_including_labware,
     is_fixed_trash |-> FALSE, is_semi_configuration |-> FALSE]

ThermocyclerModule(name_for_errors, highest_z_including_labware, is_semi_configuration) ==
    [kind |-> "ThermocyclerModule", name_for_errors |-> name_for_errors,
     highest_z |-> highest_z_including_labware,
     is_fixed_trash |-> FALSE, is_semi_configuration |-> is_semi_configuration]

OtherModule(name_for_errors, highest_z_including_labware) ==
    [kind |-> "OtherModule", name_for_errors |-> name_for_errors,
     highest_z |-> highest_z_including_labware,
     is_fixed_trash |-> FALSE, is_semi_configuration |-> FALSE]

\* Variant that maps a labware stacked on another labware to the slot of the
\* labware under it.
_map_labware_stacked(lw, labware_id) ==
    LET location_from_engine == lw[labware_id].location
        item == Labware(lw[labware_id].load_name, lw[labware_id].highest_z,
                        lw[labware_id].is_fixed_trash)
    IN  IF location_from_engine.kind = "DeckSlotLocation"
        THEN {[slot |-> location_from_engine.slotName, item |-> item]}
        ELSE IF /\ location_from_engine.kind = "OnLabwareLocation"
                /\ lw[location_from_engine.id].location.kind = "DeckSlotLocation"
        THEN {[slot |-> lw[location_from_engine.id].location.slotName, item |-> item]}
        ELSE {}

\* _map_labware: None ({}) or the (slot, item) pair.  lw is the engine's
\* labware state.
_map_labware(lw, labware_id) ==
    LET location_from_engine == lw[labware_id].location
    IN  IF location_from_engine.kind = "DeckSlotLocation"
        THEN {[slot |-> location_from_engine.slotName,
               item |-> Labware(lw[labware_id].load_name, lw[labware_id].highest_z,
                                lw[labware_id].is_fixed_trash)]}
        ELSE {}

\* _get_module_highest_z_including_labware: the module's own height, or the
\* top of the labware stack when a labware is loaded on the module.
_get_module_highest_z_including_labware(lw, md, module_id) ==
    LET on_module == {l \in DOMAIN lw : lw[l].location = ModuleLocation(module_id)}
    IN  IF on_module = {} THEN md[module_id].overall_height
        ELSE lw[CHOOSE l \in on_module : TRUE].highest_z

\* Variant that builds the thermocycler in its semi configuration.
_map_module_semi_configuration(lw, md, module_id) ==
    LET module_model == md[module_id].model
        z == _get_module_highest_z_including_labware(lw, md, module_id)
    IN  IF as_type(module_model) = "heaterShakerModuleType"
        THEN {[slot |-> md[module_id].slot, item |-> HeaterShakerModule(module_model, z)]}
        ELSE IF as_type(module_model) = "thermocyclerModuleType"
        THEN {[slot |-> md[module_id].slot, item |-> ThermocyclerModule(module_model, z, TRUE)]}
        ELSE {[slot |-> md[module_id].slot, item |-> OtherModule(module_model, z)]}

\* Variant without the thermocycler branch.
_map_module_no_thermocycler(lw, md, module_id) ==
    LET module_model == md[module_id].model
        z == _get_module_highest_z_including_labware(lw, md, module_id)
    IN  IF as_type(module_model) = "heaterShakerModuleType"
        THEN {[slot |-> md[module_id].slot, item |-> HeaterShakerModule(module_model, z)]}
        ELSE {[slot |-> md[module_id].slot, item |-> OtherModule(module_model, z)]}

\* _map_module: always a (slot, item) pair, at the slot the engine reports.
_map_module(lw, md, module_id) ==
    LET module_model == md[module_id].model
        module_type == as_type(module_model)
        mapped_location == md[module_id].slot
        name_for_errors == module_model
        highest_z_including_labware ==
            _get_module_highest_z_including_labware(lw, md, module_id)
    IN  IF module_type = "heaterShakerModuleType"
        THEN {[slot |-> mapped_location,
               item |-> HeaterShakerModule(name_for_errors, highest_z_including_labware)]}
        ELSE IF module_type = "thermocyclerModuleType"
        THEN {[slot |-> mapped_location,
               item |-> ThermocyclerModule(name_for_errors,
                                           highest_z_including_labware, FALSE)]}
        ELSE {[slot |-> mapped_location,
               item |-> OtherModule(name_for_errors, highest_z_including_labware)]}

\* ---- opentrons.motion_planning.deck_conflict and adjacent_slots_getters
SlotColumn(s) == ((s - 1) % 3) + 1

get_east_slot(s) == IF SlotColumn(s) < 3 THEN {s + 1} ELSE {}
get_west_slot(s) == IF SlotColumn(s) > 1 THEN {s - 1} ELSE {}
get_north_slot(s) == IF s + 3 \in DeckSlots THEN {s + 3} ELSE {}
get_south_slot(s) == IF s - 3 \in DeckSlots THEN {s - 3} ELSE {}
get_east_west_slots(s) == get_east_slot(s) \cup get_west_slot(s)
get_adjacent_slots(s) ==
    get_east_west_slots(s) \cup get_north_slot(s) \cup get_south_slot(s)

\* The slots a thermocycler's footprint spans.
_slots_covered_by_thermocycler(item) ==
    IF item.is_semi_configuration THEN {7, 10} ELSE {7, 8, 10, 11}

\* The clearance beside a heater-shaker.
HS_MAX_X_ADJACENT_ITEM_HEIGHT == 53

\* The restrictions an item at a location puts on the deck: nothing else in
\* its own slot, nothing in a thermocycler's footprint, no module next to a
\* heater-shaker and nothing tall east or west of it.
_create_restrictions(item, location) ==
    {[location |-> location, rule |-> "NothingAllowed", source |-> location]}
    \cup (IF item.kind = "ThermocyclerModule"
          THEN {[location |-> c, rule |-> "NothingAllowed", source |-> location] :
                    c \in _slots_covered_by_thermocycler(item)}
          ELSE {})
    \cup (IF item.kind = "HeaterShakerModule"
          THEN {[location |-> c, rule |-> "NoModule", source |-> location] :
                    c \in get_adjacent_slots(location)}
               \cup {[location |-> c, rule |-> "MaxHeight", source |-> location] :
                        c \in get_east_west_slots(location)}
          ELSE {})

is_allowed(rule, item) ==
    IF rule = "NothingAllowed" THEN FALSE
    ELSE IF rule = "NoModule" THEN item.kind = "Labware"
    ELSE item.highest_z <= HS_MAX_X_ADJACENT_ITEM_HEIGHT

\* wrapped_deck_conflict.check: the slots of the existing items the new item
\* conflicts with; DeckConflictError is raised when there is one.
wrapped_check(existing_items, new_item, new_location) ==
    LET on_new == {r \in UNION {_create_restrictions(e.item, e.slot) : e \in existing_items} :
                      r.location = new_location /\ ~is_allowed(r.rule, new_item)}
        by_new == {e \in existing_items :
                      \E r \in _create_restrictions(new_item, new_location) :
                          r.location = e.slot /\ ~is_allowed(r.rule, e.item)}
    IN  {r.source : r \in on_new} \cup {e.slot : e \in by_new}

\* Variant that skips the call to the wrapped check.
check_without_wrapped_check(lw, md, existing_labware_ids, existing_module_ids, new_labware_id, new_module_id) ==
    LET new_location_and_item ==
            IF new_module_id # "" THEN _map_module(lw, md, new_module_id)
            ELSE _map_labware(lw, new_labware_id)
        entries ==
            [i \in existing_labware_ids \cup existing_module_ids |->
                IF i \in existing_module_ids THEN _map_module(lw, md, i)
                ELSE _map_labware(lw, i)]
        clash == \E i, j \in DOMAIN entries :
                    i # j /\ \E e1 \in entries[i], e2 \in entries[j] : e1.slot = e2.slot
    IN  IF new_location_and_item = {}
        THEN [result |-> "return", blame |-> {}, examined |-> FALSE]
        ELSE IF clash THEN [result |-> "AssertionError", blame |-> {}, examined |-> TRUE]
        ELSE [result |-> "return", blame |-> {}, examined |-> TRUE]

\* Variant that maps and enters the existing items before it looks at what
\* the new item maps to.
check_existing_items_first(lw, md, existing_labware_ids, existing_module_ids, new_labware_id, new_module_id) ==
    LET new_location_and_item ==
            IF new_module_id # "" THEN _map_module(lw, md, new_module_id)
            ELSE _map_labware(lw, new_labware_id)
        new == CHOOSE n \in new_location_and_item : TRUE
        entries ==
            [i \in existing_labware_ids \cup existing_module_ids |->
                IF i \in existing_module_ids THEN _map_module(lw, md, i)
                ELSE _map_labware(lw, i)]
        clash == \E i, j \in DOMAIN entries :
                    i # j /\ \E e1 \in entries[i], e2 \in entries[j] : e1.slot = e2.slot
        conflicts == wrapped_check(UNION {entries[i] : i \in DOMAIN entries},
                                   new.item, new.slot)
    IN  IF clash THEN [result |-> "AssertionError", blame |-> {}, examined |-> TRUE]
        ELSE IF new_location_and_item = {}
        THEN [result |-> "return", blame |-> {}, examined |-> TRUE]
        ELSE IF conflicts # {}
        THEN [result |-> "DeckConflictError", blame |-> conflicts, examined |-> TRUE]
        ELSE [result |-> "return", blame |-> {}, examined |-> TRUE]

\* ---- check(): lw and md are the engine's state, which already holds the
\* new item; "" stands for a new_labware_id / new_module_id of None.
\* examined: the existing items were mapped and entered into existing_items,
\* which happens only after the return for a new item mapped to None.
check(lw, md, existing_labware_ids, existing_module_ids, new_labware_id, new_module_id) ==
    LET new_location_and_item ==
            IF new_module_id # "" THEN _map_module(lw, md, new_module_id)
            ELSE _map_labware(lw, new_labware_id)
        new == CHOOSE n \in new_location_and_item : TRUE
        mapped_existing_labware ==
            [l \in {l \in existing_labware_ids : _map_labware(lw, l) # {}} |->
                CHOOSE e \in _map_labware(lw, l) : TRUE]
        mapped_existing_modules ==
            [m \in existing_module_ids |-> CHOOSE e \in _map_module(lw, md, m) : TRUE]
        clash ==
            \/ \E l1, l2 \in DOMAIN mapped_existing_labware :
                  l1 # l2 /\ mapped_existing_labware[l1].slot = mapped_existing_labware[l2].slot
            \/ \E m1, m2 \in DOMAIN mapped_existing_modules :
                  m1 # m2 /\ mapped_existing_modules[m1].slot = mapped_existing_modules[m2].slot
            \/ \E l \in DOMAIN mapped_existing_labware, m \in DOMAIN mapped_existing_modules :
                  mapped_existing_labware[l].slot = mapped_existing_modules[m].slot
        existing_items ==
            {mapped_existing_labware[l] : l \in DOMAIN mapped_existing_labware}
            \cup {mapped_existing_modules[m] : m \in DOMAIN mapped_existing_modules}
        conflicts == wrapped_check(existing_items, new.item, new.slot)
    IN  IF new_location_and_item = {}
        THEN [result |-> "return", blame |-> {}, examined |-> FALSE]
        ELSE IF clash THEN [result |-> "AssertionError", blame |-> {}, examined |-> TRUE]
        ELSE IF conflicts # {}
        THEN [result |-> "DeckConflictError", blame |-> conflicts, examined |-> TRUE]
        ELSE [result |-> "return", blame |-> {}, examined |-> TRUE]

\* ---- the caller: an item is loaded into the engine, check() runs with the
\* items loaded before it, and the item is kept when check() returns.
LabwareIds == {"labware-1", "labware-2"}
ModuleIds == {"module-1", "module-2"}
LoadSlots == {1, 2, 3, 7, 8}
LabwareHeights == {HS_MAX_X_ADJACENT_ITEM_HEIGHT, HS_MAX_X_ADJACENT_ITEM_HEIGHT + 1}

LabwareLocations ==
    {DeckSlotLocation(s) : s \in LoadSlots}
    \cup {ModuleLocation(m) : m \in DOMAIN modules}
    \cup {OnLabwareLocation(l) : l \in DOMAIN labware}
    \cup {OFF_DECK_LOCATION}

Extend(f, k, v) == [x \in DOMAIN f \cup {k} |-> IF x = k THEN v ELSE f[x]]

LoadLabware(labware_id, location, highest_z) ==
    /\ labware_id \notin DOMAIN labware
    /\ Cardinality(DOMAIN labware) + Cardinality(DOMAIN modules) < MaxItems
    /\ LET loaded == Extend(labware, labware_id,
                        [location |-> location, load_name |-> "plate",
                         highest_z |-> highest_z, is_fixed_trash |-> FALSE])
           outcome == check(loaded, modules, DOMAIN labware, DOMAIN modules, labware_id, "")
       IN  /\ labware' = IF outcome.result = "return" THEN loaded ELSE labware
           /\ deck_last' = [op |-> "load_labware", id |-> labware_id, location |-> location,
                            result |-> outcome.result, blame |-> outcome.blame,
                            examined |-> outcome.examined]
    /\ UNCHANGED <<modules, fnVars, calVars, moveVars, storeVars, asyncVars, raceVars, execVars>>

LoadModule(module_id, model, slot) ==
    /\ module_id \notin DOMAIN modules
    /\ Cardinality(DOMAIN labware) + Cardinality(DOMAIN modules) < MaxItems
    /\ LET loaded == Extend(modules, module_id,
                        [model |-> model, slot |-> slot, overall_height |-> 80])
           outcome == check(labware, loaded, DOMAIN labware, DOMAIN modules, "", module_id)
       IN  /\ modules' = IF outcome.result = "return" THEN loaded ELSE modules
           /\ deck_last' = [op |-> "load_module", id |-> module_id,
                            location |-> DeckSlotLocation(slot),
                            result |-> outcome.result, blame |-> outcome.blame,
                            examined |-> outcome.examined]
    /\ UNCHANGED <<labware, fnVars, calVars, moveVars, storeVars, asyncVars, raceVars, execVars>>

InitDeck ==
    /\ DeckIdle
    /\ MoveIdle
    /\ StoreIdle
    /\ AsyncIdle
    /\ RaceIdle
    /\ ExecIdle
    /\ FnIdle
    /\ CalIdle

NextDeck ==
    \/ \E l \in LabwareIds, loc \in LabwareLocations, z \in LabwareHeights :
          LoadLabware(l, loc, z)
    \/ \E m \in ModuleIds, model \in ModuleModels, s \in LoadSlots :
          LoadModule(m, model, s)

SpecDeck == InitDeck /\ [][NextDeck]_vars

\* ============================================= check_safe_for_pipette_movement

\* The margin added to the pipetting height before it is compared with the
\* east neighbour.
SafeMargin == 10

NozzleConfigurationTypes == {"EMPTY", "SINGLE", "ROW", "COLUMN", "QUADRANT"}
PrimaryNozzles == {"A1", "H1"}

\* The outcomes of a check: a plain return or an exception.
Returned == [raised |-> "None", message |-> ""]
PartialTipMovementNotAllowedError(message) ==
    [raised |-> "PartialTipMovementNotAllowedError", message |-> message]
AssertionError == [raised |-> "AssertionError", message |-> ""]

_deck_slot_to_int(slotName) == slotName

\* Variant without the column-1 rule.
_check_column_h1_without_column_1_rule(engine_state) ==
    LET east_slot == get_east_slot(_deck_slot_to_int(engine_state.ancestor_slot))
        tip_length == IF engine_state.attached_tip # {}
                      THEN CHOOSE t \in engine_state.attached_tip : TRUE ELSE 0
    IN  IF east_slot = {} THEN AssertionError
        ELSE IF engine_state.highest_z_in_slot[CHOOSE e \in east_slot : TRUE]
                    > engine_state.well_position_z + tip_length + SafeMargin
        THEN PartialTipMovementNotAllowedError("collision")
        ELSE Returned

\* Variant that refuses an east neighbour as high as the limit.
_check_column_h1_east_at_limit(engine_state) ==
    LET east_slot == get_east_slot(_deck_slot_to_int(engine_state.ancestor_slot))
        tip_length == IF engine_state.attached_tip # {}
                      THEN CHOOSE t \in engine_state.attached_tip : TRUE ELSE 0
    IN  IF SlotColumn(engine_state.ancestor_slot) = 1
        THEN PartialTipMovementNotAllowedError("out of bounds")
        ELSE IF east_slot = {} THEN AssertionError
        ELSE IF engine_state.highest_z_in_slot[CHOOSE e \in east_slot : TRUE]
                    >= engine_state.well_position_z + tip_length + SafeMargin
        THEN PartialTipMovementNotAllowedError("collision")
        ELSE Returned

\* _check_deck_conflict_for_column_h1_config: engine_state is the snapshot
\* the state view answers from.  The target's slot in column 1 is out of
\* bounds; otherwise the slot to the east must exist (the assert) and must
\* not be higher than the pipetting point plus the tip plus the margin.
_check_deck_conflict_for_column_h1_config(engine_state) ==
    LET labware_slot == engine_state.ancestor_slot
        east_slot == get_east_slot(_deck_slot_to_int(labware_slot))
        east_slot_highest_z ==
            engine_state.highest_z_in_slot[CHOOSE e \in east_slot : TRUE]
        well_location_z == engine_state.well_position_z
        pipette_tip == engine_state.attached_tip
        tip_length == IF pipette_tip # {} THEN CHOOSE t \in pipette_tip : TRUE ELSE 0
    IN  IF SlotColumn(labware_slot) = 1
        THEN PartialTipMovementNotAllowedError("out of bounds")
        ELSE IF east_slot = {} THEN AssertionError
        ELSE IF east_slot_highest_z > well_location_z + tip_length + SafeMargin
        THEN PartialTipMovementNotAllowedError("collision")
        ELSE Returned

\* Variant that checks every layout but the full one.
check_safe_every_partial_layout(engine_state) ==
    IF engine_state.nozzle_layout_type # "EMPTY"
    THEN _check_deck_conflict_for_column_h1_config(engine_state)
    ELSE Returned

\* check_safe_for_pipette_movement: only the nozzle layout type is looked at;
\* the primary nozzle is not.
check_safe_for_pipette_movement(engine_state) ==
    IF engine_state.nozzle_layout_type = "COLUMN"
    THEN _check_deck_conflict_for_column_h1_config(engine_state)
    ELSE Returned

\* ---- the engine states a movement is checked in: one slot of the deck holds
\* an item, the others are empty.
TipLengths == {5}
WellZs == {20, 21}
SlotHeights == {WellZ + SafeMargin + d : WellZ \in WellZs, d \in {0, 5}}

EngineStates ==
    {[nozzle_layout_type |-> layout, primary_nozzle |-> nozzle, attached_tip |-> tip,
      ancestor_slot |-> slot,
      highest_z_in_slot |-> [s \in DeckSlots |-> IF s = occupied THEN z ELSE 0],
      well_position_z |-> well_z] :
        layout \in NozzleConfigurationTypes, nozzle \in PrimaryNozzles,
        tip \in {{}} \cup {{t} : t \in TipLengths}, slot \in DeckSlots,
        occupied \in DeckSlots, z \in SlotHeights, well_z \in WellZs}

\* One call per behaviour, in any of the engine states: the check reads the
\* snapshot and changes nothing.
CheckSafeForPipetteMovement ==
    /\ MoveIdle
    /\ \E engine_state \in EngineStates :
          move' = [engine_state |-> engine_state]
                      @@ check_safe_for_pipette_movement(engine_state)
    /\ UNCHANGED <<fnVars, calVars, deckVars, storeVars, asyncVars, raceVars, execVars>>

InitMove ==
    /\ MoveIdle
    /\ StoreIdle
    /\ AsyncIdle
    /\ RaceIdle
    /\ ExecIdle
    /\ FnIdle
    /\ CalIdle
    /\ DeckIdle

NextMove == CheckSafeForPipetteMovement

SpecMove == InitMove /\ [][NextMove]_vars

\* ================================================== MaintenanceEngineStore

\* The ProtocolEngines one behaviour constructs at most.
MaxEngines == 3

RunIds == {"run-id-1", "run-id-2"}

EngineConflictError == "EngineConflictError"

\* The record of a call: what was asked and what the store held before it.
StoreCall(op, run_id, raised) ==
    [op |-> op, run_id |-> run_id, raised |-> raised,
     engine_before |-> _engine, run_id_before |-> _run_id]

\* Variant without the test for a stored engine.
create_over_stored_engine(run_id, constructed, idle) ==
    /\ engines < MaxEngines
    /\ constructed
    /\ _run_id' = {run_id}
    /\ engines' = engines + 1
    /\ _engine' = {engines + 1}
    /\ okay_to_clear' = idle
    /\ store_last' = StoreCall("create", run_id, "None")
    /\ UNCHANGED <<fnVars, calVars, deckVars, moveVars, asyncVars, raceVars, execVars>>

\* create(run_id, labware_offsets), run to its end with no other call in
\* between.  constructed: create_protocol_engine returned an engine rather
\* than raising; idle: what the new engine answers to get_is_okay_to_clear.
\* An engine is the number of its construction.
create(run_id, constructed, idle) ==
    /\ (_engine = {} /\ constructed) => engines < MaxEngines
    /\ IF _engine # {}
       THEN /\ store_last' = StoreCall("create", run_id, EngineConflictError)
            /\ UNCHANGED <<_run_id, _engine, okay_to_clear, engines>>
       ELSE IF constructed
       THEN /\ _run_id' = {run_id}
            /\ engines' = engines + 1
            /\ _engine' = {engines + 1}
            /\ okay_to_clear' = idle
            /\ store_last' = StoreCall("create", run_id, "None")
       ELSE /\ _run_id' = {run_id}
            /\ store_last' = StoreCall("create", run_id, "Exception")
            /\ UNCHANGED <<_engine, okay_to_clear, engines>>
    /\ UNCHANGED <<fnVars, calVars, deckVars, moveVars, asyncVars, raceVars, execVars>>

\* The engine property: the stored engine, or the failed assertion
\* "Engine not yet created."
engine ==
    IF _engine = {} THEN [raised |-> "AssertionError", value |-> {}]
    ELSE [raised |-> "None", value |-> _engine]

\* The current_run_id property.
current_run_id == _run_id

\* Variant that removes the engine whatever its command state reports.
clear_whatever_the_engine_does ==
    /\ IF _engine = {}
       THEN /\ store_last' = StoreCall("clear", "", "AssertionError")
            /\ UNCHANGED <<_run_id, _engine, okay_to_clear, engines>>
       ELSE /\ _engine' = {}
            /\ _run_id' = {}
            /\ okay_to_clear' = FALSE
            /\ store_last' = StoreCall("clear", "", "None")
            /\ UNCHANGED engines
    /\ UNCHANGED <<fnVars, calVars, deckVars, moveVars, asyncVars, raceVars, execVars>>

\* clear(): the engine property asserts that an engine is stored; the engine
\* is finished and removed when it is okay to clear.
clear ==
    /\ IF _engine = {}
       THEN /\ store_last' = StoreCall("clear", "", "AssertionError")
            /\ UNCHANGED <<_run_id, _engine, okay_to_clear, engines>>
       ELSE IF okay_to_clear
       THEN /\ _engine' = {}
            /\ _run_id' = {}
            /\ okay_to_clear' = FALSE
            /\ store_last' = StoreCall("clear", "", "None")
            /\ UNCHANGED engines
       ELSE /\ store_last' = StoreCall("clear", "", EngineConflictError)
            /\ UNCHANGED <<_run_id, _engine, okay_to_clear, engines>>
    /\ UNCHANGED <<fnVars, calVars, deckVars, moveVars, asyncVars, raceVars, execVars>>

\* The stored engine starts or stops running commands.
EngineStatusChanges ==
    /\ _engine # {}
    /\ okay_to_clear' = ~okay_to_clear
    /\ UNCHANGED <<_run_id, _engine, engines, store_last>>
    /\ UNCHANGED <<fnVars, calVars, deckVars, moveVars, asyncVars, raceVars, execVars>>

InitStore ==
    /\ StoreIdle
    /\ AsyncIdle
    /\ RaceIdle
    /\ ExecIdle
    /\ FnIdle
    /\ CalIdle
    /\ DeckIdle
    /\ MoveIdle

\* The calls on one store, made one at a time.
NextStore ==
    \/ \E run_id \in RunIds, constructed \in BOOLEAN, idle \in BOOLEAN :
          create(run_id, constructed, idle)
    \/ clear
    \/ EngineStatusChanges

SpecStore == InitStore /\ [][NextStore]_vars

\* ---- create in the two steps its await divides it into: another coroutine
\* can run while create_protocol_engine is awaited.

\* create() up to its await: the test for a stored engine and the assignment
\* of the run id.
create_begin(c, run_id) ==
    /\ calls[c] = {}
    /\ engines < MaxEngines
    /\ IF _engine # {}
       THEN /\ store_last' = StoreCall("create", run_id, EngineConflictError)
            /\ UNCHANGED <<_run_id, calls>>
       ELSE /\ _run_id' = {run_id}
            /\ calls' = [calls EXCEPT ![c] = {run_id}]
            /\ UNCHANGED store_last
    /\ UNCHANGED <<_engine, okay_to_clear, engines>>
    /\ UNCHANGED <<fnVars, calVars, deckVars, moveVars, raceVars, execVars>>

\* create() from the return of create_protocol_engine to its end: the engine
\* is stored, or the exception of the construction leaves the call.
create_end(c, constructed, idle) ==
    /\ calls[c] # {}
    /\ constructed => engines < MaxEngines
    /\ LET run_id == CHOOSE r \in calls[c] : TRUE
       IN  IF constructed
           THEN /\ engines' = engines + 1
                /\ _engine' = {engines + 1}
                /\ okay_to_clear' = idle
                /\ store_last' = StoreCall("create", run_id, "None")
           ELSE /\ store_last' = StoreCall("create", run_id, "Exception")
                /\ UNCHANGED <<_engine, okay_to_clear, engines>>
    /\ calls' = [calls EXCEPT ![c] = {}]
    /\ UNCHANGED _run_id
    /\ UNCHANGED <<fnVars, calVars, deckVars, moveVars, raceVars, execVars>>

\* The calls on one store made by coroutines of one event loop.
NextStoreAsync ==
    \/ \E c \in Callers, run_id \in RunIds : create_begin(c, run_id)
    \/ \E c \in Callers, constructed \in BOOLEAN, idle \in BOOLEAN :
          create_end(c, constructed, idle)
    \/ clear
    \/ EngineStatusChanges

SpecStoreAsync == InitStore /\ [][NextStoreAsync]_vars

\* ===================================================== execution manager

ExecutionCancelledError == "ExecutionCancelledError"

\* The record of a call on the execution manager that has ended.
ExecCall(op, task, raised) ==
    [op |-> op, task |-> task, raised |-> raised, state_before |-> _state,
     blocked |-> FALSE, since |-> {}]

\* History only: the call `op` took effect while these coroutines were inside
\* wait_for_is_running.
Called(op, ws) ==
    [t \in Tasks |->
        IF ws[t].pc \in {"waiting", "notified"}
        THEN [ws[t] EXCEPT !.since = @ \cup {op}]
        ELSE ws[t]]

\* self._condition.notify_all(): every coroutine inside _condition.wait() is
\* made ready to run; it goes on only once the event loop runs it.
notify_all(ws) ==
    [t \in Tasks |->
        IF ws[t].pc = "waiting" THEN [ws[t] EXCEPT !.pc = "notified"] ELSE ws[t]]

\* pause(): the body has no await, so it runs in one step once the lock is
\* taken, and the lock is free whenever a coroutine runs (a waiter holds it
\* only inside its own step).  Nobody is notified.
pause ==
    /\ IF _state = "CANCELLED"
       THEN /\ exec_last' = ExecCall("pause", "", ExecutionCancelledError)
            /\ UNCHANGED _state
       ELSE /\ _state' = "PAUSED"
            /\ exec_last' = ExecCall("pause", "", "none")
    /\ UNCHANGED <<waiters, _cancellable_tasks>>
    /\ UNCHANGED <<fnVars, calVars, deckVars, moveVars, storeVars, asyncVars, raceVars>>

\* Variant that sets RUNNING and notifies whatever the state.
resume_whatever_the_state ==
    /\ _state' = "RUNNING"
    /\ waiters' = notify_all(Called("resume", waiters))
    /\ exec_last' = ExecCall("resume", "", "none")
    /\ UNCHANGED _cancellable_tasks
    /\ UNCHANGED <<fnVars, calVars, deckVars, moveVars, storeVars, asyncVars, raceVars>>

\* Variant that sets RUNNING and notifies nobody.
resume_without_notify ==
    /\ IF _state = "CANCELLED"
       THEN UNCHANGED <<_state, waiters>>
       ELSE /\ _state' = "RUNNING"
            /\ waiters' = Called("resume", waiters)
    /\ exec_last' = ExecCall("resume", "", "none")
    /\ UNCHANGED _cancellable_tasks
    /\ UNCHANGED <<fnVars, calVars, deckVars, moveVars, storeVars, asyncVars, raceVars>>

resume ==
    /\ IF _state = "CANCELLED"
       THEN UNCHANGED <<_state, waiters>>
       ELSE /\ _state' = "RUNNING"
            /\ waiters' = notify_all(Called("resume", waiters))
    /\ exec_last' = ExecCall("resume", "", "none")
    /\ UNCHANGED _cancellable_tasks
    /\ UNCHANGED <<fnVars, calVars, deckVars, moveVars, storeVars, asyncVars, raceVars>>

\* cancel(): every registered task is cancelled (the caller is never one of
\* the registered delay tasks), and the done callback of a cancelled task
\* discards it from the set.
cancel ==
    /\ _state' = "CANCELLED"
    /\ waiters' = notify_all(Called("cancel", waiters))
    /\ _cancellable_tasks' = {}
    /\ exec_last' = ExecCall("cancel", "", "none")
    /\ UNCHANGED <<fnVars, calVars, deckVars, moveVars, storeVars, asyncVars, raceVars>>

reset ==
    /\ _state' = "RUNNING"
    /\ waiters' = notify_all(Called("reset", waiters))
    /\ exec_last' = ExecCall("reset", "", "none")
    /\ UNCHANGED _cancellable_tasks
    /\ UNCHANGED <<fnVars, calVars, deckVars, moveVars, storeVars, asyncVars, raceVars>>

get_state ==
    /\ exec_last' = ExecCall("get_state", "", "none")
    /\ UNCHANGED <<_state, waiters, _cancellable_tasks>>
    /\ UNCHANGED <<fnVars, calVars, deckVars, moveVars, storeVars, asyncVars, raceVars>>

\* register_cancellable_task(task), as do_delay calls it for its sleep task.
register_cancellable_task(task) ==
    /\ task \notin _cancellable_tasks
    /\ _cancellable_tasks' = _cancellable_tasks \cup {task}
    /\ UNCHANGED <<_state, waiters, exec_last>>
    /\ UNCHANGED <<fnVars, calVars, deckVars, moveVars, storeVars, asyncVars, raceVars>>

\* The done callback of a registered task that ran to its end.
TaskDone(task) ==
    /\ task \in _cancellable_tasks
    /\ _cancellable_tasks' = _cancellable_tasks \ {task}
    /\ UNCHANGED <<_state, waiters, exec_last>>
    /\ UNCHANGED <<fnVars, calVars, deckVars, moveVars, storeVars, asyncVars, raceVars>>

\* wait_for_is_running() up to its first await: PAUSED blocks in
\* _condition.wait() (which gives the lock back), CANCELLED raises, RUNNING
\* returns.
wait_for_is_running(task) ==
    /\ waiters[task].pc = "idle"
    /\ IF _state = "PAUSED"
       THEN /\ waiters' = [waiters EXCEPT ![task] = [pc |-> "waiting", since |-> {}]]
            /\ UNCHANGED exec_last
       ELSE /\ exec_last' =
                  ExecCall("wait_for_is_running", task,
                           IF _state = "CANCELLED" THEN ExecutionCancelledError
                           ELSE "none")
            /\ UNCHANGED waiters
    /\ UNCHANGED <<_state, _cancellable_tasks>>
    /\ UNCHANGED <<fnVars, calVars, deckVars, moveVars, storeVars, asyncVars, raceVars>>

\* The rest of wait_for_is_running(), run by the event loop for a notified
\* coroutine: _condition.wait() takes the lock again and returns; the state is
\* tested for CANCELLED only, then the call ends.
wait_returns(task) ==
    /\ waiters[task].pc = "notified"
    /\ exec_last' =
          [ExecCall("wait_for_is_running", task,
                    IF _state = "CANCELLED" THEN ExecutionCancelledError
                    ELSE "none")
              EXCEPT !.blocked = TRUE, !.since = waiters[task].since]
    /\ waiters' = [waiters EXCEPT ![task] = NotWaiting]
    /\ UNCHANGED <<_state, _cancellable_tasks>>
    /\ UNCHANGED <<fnVars, calVars, deckVars, moveVars, storeVars, asyncVars, raceVars>>

InitExec ==
    /\ ExecIdle
    /\ StoreIdle
    /\ AsyncIdle
    /\ RaceIdle
    /\ FnIdle
    /\ CalIdle
    /\ DeckIdle
    /\ MoveIdle

\* The calls on one execution manager, each coroutine running from one await
\* to the next.
NextExec ==
    \/ pause
    \/ resume
    \/ cancel
    \/ reset
    \/ get_state
    \/ \E task \in DelayTasks : register_cancellable_task(task)
    \/ \E task \in DelayTasks : TaskDone(task)
    \/ \E task \in Tasks : wait_for_is_running(task)
    \/ \E task \in Tasks : wait_returns(task)

SpecExec == InitExec /\ [][NextExec]_vars

\* The asyncio event loop runs every callback it has scheduled: a notified
\* coroutine is run.
SpecExecFair == SpecExec /\ \A task \in Tasks : WF_vars(wait_returns(task))

\* ===================================================== pure-function claims

\* Some integer combination of the three rows of A, not all coefficients
\* zero, vanishes.  (For entries in 0..MaxEntry a vanishing combination, if
\* there is one, has coefficients within MaxEntry^2: the 2x2 cofactors.)
DependentRows(A) ==
    LET cb == MaxEntry * MaxEntry
    IN  \E c1 \in -cb..cb, c2 \in -cb..cb, c3 \in -cb..cb :
          /\ <<c1, c2, c3>> # <<0, 0, 0>>
          /\ \A j \in 1..3 :
                c1 * At(A, 1, j) + c2 * At(A, 2, j) + c3 * At(A, 3, j) = 0

IsAttitudeCall == fn = "validate_attitude_deck_calibration"
IsGantryCall == fn = "validate_gantry_calibration"
IsMigrateCall == fn = "migrate_affine_xy_to_attitude"

\* The legacy transform's Z translation: row 2 (0-based), last column.
ZTranslation(A) == At(A, 3, A.shape[2])

FullRankNonIdentity4x4(A) ==
    /\ A.shape = <<4, 4>>
    /\ DetSub(A, 1..4, 1..4) # 0
    /\ A # identity_deck_transform

\* C2: validate_attitude_deck_calibration returns SINGULARITY when the rank is
\* below the row count (so for every square attitude whose rows are linearly
\* dependent), otherwise IDENTITY when last_modified is unset whatever the
\* entries are, otherwise OK; it never returns BAD_CALIBRATION.
C2_AttitudeValidation ==
    (IsAttitudeCall /\ Ndim(arg) = 2) =>
        /\ (arg.shape = <<3, 3>> =>
                (DependentRows(arg) <=> res = SINGULARITY))
        /\ (matrix_rank(arg) < arg.shape[1] => res = SINGULARITY)
        /\ (matrix_rank(arg) >= arg.shape[1] /\ arg_lm = NoTime => res = IDENTITY)
        /\ (matrix_rank(arg) >= arg.shape[1] /\ arg_lm # NoTime => res = OK)
        /\ res # BAD_CALIBRATION

\* A full-rank attitude that is not the identity matrix, never modified,
\* validated as IDENTITY.
C2_Witness ==
    /\ IsAttitudeCall
    /\ arg.shape = <<3, 3>>
    /\ arg # default_deck_calibration
    /\ ~DependentRows(arg)
    /\ arg_lm = NoTime
    /\ res = IDENTITY

\* C3 as stated: for a full-rank, non-identity legacy transform the result is
\* BAD_CALIBRATION exactly when the Z translation itself lies outside
\* [16, 34], and OK when it lies inside.
C3_SignedZBand ==
    (IsGantryCall /\ FullRankNonIdentity4x4(arg)) =>
        LET z == ZTranslation(arg)
        IN  /\ (res = BAD_CALIBRATION <=> (z < ZMin \/ z > ZMax))
            /\ ((ZMin <= z /\ z <= ZMax) => res = OK)

\* C3 (amended): for a full-rank, non-identity legacy transform the result is
\* BAD_CALIBRATION exactly when the absolute value of the Z translation lies
\* outside [16, 34], and OK when it lies inside, 16 and 34 included.
C3_AbsZBand ==
    (IsGantryCall /\ FullRankNonIdentity4x4(arg)) =>
        LET z == ZTranslation(arg)
            mag == IF z < 0 THEN 0 - z ELSE z
        IN  /\ (res = BAD_CALIBRATION <=> (mag < ZMin \/ mag > ZMax))
            /\ ((ZMin <= mag /\ mag <= ZMax) => res = OK)

\* A negative Z translation whose magnitude is the band's upper bound: OK.
C3_Witness ==
    /\ IsGantryCall
    /\ FullRankNonIdentity4x4(arg)
    /\ ZTranslation(arg) = -ZMax
    /\ res = OK

\* C4: validate_gantry_calibration checks singularity, then identity, then the
\* Z range: a rank-deficient transform is SINGULARITY whatever its Z, the
\* canonical identity is IDENTITY although its Z of 0 is out of range, and a
\* full-rank non-identity transform with Z translation 10 is BAD_CALIBRATION.
C4_GantryCheckOrder ==
    (IsGantryCall /\ arg.shape = <<4, 4>>) =>
        /\ (DetSub(arg, 1..4, 1..4) = 0 => res = SINGULARITY)
        /\ (arg = identity_deck_transform => res = IDENTITY)
        /\ (FullRankNonIdentity4x4(arg) /\ ZTranslation(arg) = 10
                => res = BAD_CALIBRATION)

\* The canonical identity, validated as IDENTITY.
C4_Witness ==
    /\ IsGantryCall
    /\ arg = identity_deck_transform
    /\ res = IDENTITY

\* A rank-deficient transform whose Z translation is inside the band.
C4_WitnessSingularInBand ==
    /\ IsGantryCall
    /\ arg.shape = <<4, 4>>
    /\ DetSub(arg, 1..4, 1..4) = 0
    /\ ZTranslation(arg) = 25
    /\ res = SINGULARITY

IsValidateCall == last.op = "validate_calibration"

\* C1: every validate_calibration returns what
\* validate_attitude_deck_calibration gives for the deck calibration the
\* provider holds, and the first validate_calibration after a construction,
\* set or reset runs the validation instead of returning a memoized result.
C1_ValidateIsCurrent ==
    IsValidateCall =>
        /\ last.ret = validate_attitude_deck_calibration(robot_calibration[last.p])
        /\ (~last.repeat => last.computed)

\* A first validate_calibration after a set: nothing is stored, so the OK it
\* returns is the validation of the calibration that was set.
C1_Witness ==
    /\ IsValidateCall
    /\ ~last.repeat
    /\ last.ret = OK
    /\ robot_calibration[last.p] \in SetArgs
    /\ storage = {}

\* C6: a validate_calibration that follows another one of the same provider,
\* with no set or reset of it between them, returns the same result and does
\* not run the attitude validation.
C6_SecondValidateIsCacheHit ==
    (IsValidateCall /\ last.repeat) =>
        /\ last.ret = last.prevret
        /\ ~last.computed

\* A repeated validate_calibration answered from the cache.
C6_Witness ==
    /\ IsValidateCall
    /\ last.repeat
    /\ last.ret = SINGULARITY
    /\ cache = {[key |-> last.p, val |-> SINGULARITY]}

\* The calibration load() builds from what the storage holds after it ran.
LoadedFrom(stor) ==
    IF stor = {} THEN DeckCalibration(default_deck_calibration, "default", NoTime)
    ELSE LET rec == CHOOSE r \in stor : TRUE
         IN  DeckCalibration(rec.attitude, rec.source, rec.last_modified)

\* C7: set_robot_calibration changes the provider's calibration and the
\* memoized validation only: the calibration storage and the legacy
\* calibration are as before, and a reset yields the calibration built from
\* the storage.
C7_SetDoesNotPersist ==
    /\ [][last'.op = "set_robot_calibration" =>
            /\ storage' = storage
            /\ legacy' = legacy
            /\ cache' = {}
            /\ \A q \in DOMAIN robot_calibration \ {last'.p} :
                    robot_calibration'[q] = robot_calibration[q]]_vars
    /\ [][last'.op = "reset_robot_calibration" =>
            robot_calibration'[last'.p] = LoadedFrom(storage')]_vars

\* A set of a calibration that the storage does not hold.
C7_WitnessSet ==
    /\ last.op = "set_robot_calibration"
    /\ storage # {}
    /\ robot_calibration[last.p] # LoadedFrom(storage)

\* A reset that brought back the default although a calibration had been set.
C7_Witness ==
    /\ last.op = "reset_robot_calibration"
    /\ storage = {}
    /\ robot_calibration[last.p] = build_temporary_identity_calibration

LegacyValidatesOK ==
    legacy # {} /\ validate_gantry_calibration(CHOOSE g \in legacy : TRUE) = OK

\* C8: when no deck attitude record is stored and no legacy gantry
\* calibration validates as OK, load() (run by the constructor and by reset)
\* yields the default attitude with source default and no last_modified,
\* saves nothing, and that calibration never validates as OK.
C8_DefaultWhenNothingStored ==
    [][(/\ last'.op \in {"__init__", "reset_robot_calibration"}
        /\ storage = {}
        /\ ~LegacyValidatesOK) =>
            /\ robot_calibration'[last'.p] =
                    DeckCalibration(default_deck_calibration, "default", NoTime)
            /\ storage' = {}
            /\ validate_attitude_deck_calibration(robot_calibration'[last'.p]) # OK
      ]_vars

\* A provider constructed with nothing stored and a legacy calibration that
\* is out of range.
C8_Witness ==
    /\ last.op = "__init__"
    /\ storage = {}
    /\ legacy # {}
    /\ validate_gantry_calibration(CHOOSE g \in legacy : TRUE) = BAD_CALIBRATION
    /\ robot_calibration[last.p].source = "default"

\* ================================================================ deck claims

IsThermocycler(m) == as_type(modules[m].model) = "thermocyclerModuleType"

\* The slots the loaded thermocyclers are mapped to.
ThermocyclerSlots == {modules[m].slot : m \in {m \in DOMAIN modules : IsThermocycler(m)}}

\* The slots a loaded thermocycler keeps other items out of: its footprint
\* and the slot it is mapped to.
ThermocyclerExcluded ==
    IF ThermocyclerSlots = {} THEN {} ELSE {7, 8, 10, 11} \cup ThermocyclerSlots

IsLabwareLoadInSlot ==
    /\ deck_last.op = "load_labware"
    /\ deck_last.location.kind = "DeckSlotLocation"

\* C10: with a thermocycler among the existing items, check() raises
\* DeckConflictError for a labware loaded into a slot the thermocycler
\* excludes; for a labware loaded into any other slot the thermocycler is
\* not among the items it conflicts with, and with nothing but thermocyclers
\* on the deck check() returns without error.
C10_ThermocyclerExcludesLabware ==
    (IsLabwareLoadInSlot /\ ThermocyclerSlots # {}) =>
        /\ (deck_last.location.slotName \in ThermocyclerExcluded
                => deck_last.result = "DeckConflictError")
        /\ (deck_last.location.slotName \notin ThermocyclerExcluded
                => /\ deck_last.blame \cap ThermocyclerSlots = {}
                   /\ ((DOMAIN labware \subseteq {deck_last.id}
                        /\ \A m \in DOMAIN modules : IsThermocycler(m))
                            => deck_last.result = "return"))

\* A labware refused in slot 8, which only the footprint of the thermocycler
\* in slot 7 covers.
C10_Witness ==
    /\ IsLabwareLoadInSlot
    /\ ThermocyclerSlots = {7}
    /\ deck_last.location.slotName = 8
    /\ deck_last.result = "DeckConflictError"
    /\ deck_last.blame = {7}

\* A labware accepted in slot 1 with a thermocycler on the deck.
C10_WitnessAccepted ==
    /\ IsLabwareLoadInSlot
    /\ ThermocyclerSlots = {7}
    /\ deck_last.location.slotName = 1
    /\ deck_last.result = "return"
    /\ deck_last.id \in DOMAIN labware

\* The entry an existing item contributes to check()'s existing_items: the
\* pair _map_module or _map_labware yields for it, or nothing.
ExistingIds == DOMAIN labware \cup DOMAIN modules

EntryOf(id) ==
    IF id \in DOMAIN modules THEN _map_module(labware, modules, id)
    ELSE _map_labware(labware, id)

LabwareOnModule(l, m) ==
    /\ l \in DOMAIN labware
    /\ m \in DOMAIN modules
    /\ labware[l].location = ModuleLocation(m)

\* C11: the slot-to-item map check() builds from the existing labware and
\* modules holds at most one item per slot: a labware on a module adds no
\* entry, the module stays the one entry of its slot, no two existing items
\* are mapped to the same slot, and the assertion at the insertion never fails.
C11_OneItemPerSlot ==
    /\ \A i, j \in ExistingIds :
          i # j => \A e1 \in EntryOf(i), e2 \in EntryOf(j) : e1.slot # e2.slot
    /\ \A l \in DOMAIN labware, m \in DOMAIN modules :
          LabwareOnModule(l, m) =>
              /\ EntryOf(l) = {}
              /\ Cardinality(EntryOf(m)) = 1
    /\ deck_last.result # "AssertionError"

\* A module with a labware stacked on it and a further labware in a slot of
\* its own, the last load checked against the first two: two entries for
\* three items.
C11_Witness ==
    /\ \E l \in DOMAIN labware, m \in DOMAIN modules : LabwareOnModule(l, m)
    /\ Cardinality(ExistingIds) = 3
    /\ Cardinality(UNION {EntryOf(i) : i \in ExistingIds}) = 2
    /\ deck_last.op = "load_labware"
    /\ deck_last.location.kind = "DeckSlotLocation"
    /\ deck_last.result = "return"

\* The slots of the existing items that are placed on the deck itself: the
\* labware loaded directly into a slot and the modules.
TopLevelSlots ==
    {labware[l].location.slotName :
        l \in {l \in DOMAIN labware : labware[l].location.kind = "DeckSlotLocation"}}
    \cup {modules[m].slot : m \in DOMAIN modules}

\* C12: _map_labware yields a Labware item at the labware's own slot exactly
\* when the labware's location is a deck slot; for a labware on a module, on
\* another labware or off-deck it yields None, so loading such a labware
\* returns without a conflict and it is never among the items a later load
\* conflicts with.
C12_MapLabware ==
    /\ \A l \in DOMAIN labware :
          IF labware[l].location.kind = "DeckSlotLocation"
          THEN _map_labware(labware, l) =
                  {[slot |-> labware[l].location.slotName,
                    item |-> [kind |-> "Labware", name_for_errors |-> labware[l].load_name,
                              highest_z |-> labware[l].highest_z,
                              is_fixed_trash |-> labware[l].is_fixed_trash,
                              is_semi_configuration |-> FALSE]]}
          ELSE _map_labware(labware, l) = {}
    /\ (deck_last.op = "load_labware" /\ deck_last.location.kind # "DeckSlotLocation")
          => (deck_last.result = "return" /\ deck_last.id \in DOMAIN labware)
    /\ deck_last.blame \subseteq TopLevelSlots

\* A labware loaded onto a labware that sits in a slot, and kept.
C12_Witness ==
    /\ deck_last.op = "load_labware"
    /\ deck_last.location.kind = "OnLabwareLocation"
    /\ deck_last.result = "return"
    /\ labware[deck_last.location.id].location.kind = "DeckSlotLocation"
    /\ labware[deck_last.id].location = deck_last.location

\* A labware on a module among the existing items when a load into the
\* module's slot is refused: the module is blamed, not the labware.
C12_WitnessExisting ==
    /\ \E l \in DOMAIN labware, m \in DOMAIN modules :
          /\ LabwareOnModule(l, m)
          /\ deck_last.blame = {modules[m].slot}
    /\ deck_last.result = "DeckConflictError"

\* The deck item variant each module model is to be given.
ExpectedItemKind(model) ==
    IF model = "heaterShakerModuleV1" THEN "HeaterShakerModule"
    ELSE IF model = "thermocyclerModuleV2" THEN "ThermocyclerModule"
    ELSE "OtherModule"

\* C13: _map_module yields exactly one item for every loaded module, never
\* None: a HeaterShakerModule, a ThermocyclerModule (is_semi_configuration
\* false) or an OtherModule according to the module's kind, at the slot the
\* state view reports for the module.
C13_MapModule ==
    \A m \in DOMAIN modules :
        /\ Cardinality(_map_module(labware, modules, m)) = 1
        /\ \A e \in _map_module(labware, modules, m) :
              /\ e.slot = modules[m].slot
              /\ e.item.kind = ExpectedItemKind(modules[m].model)
              /\ e.item.name_for_errors = modules[m].model
              /\ ~e.item.is_semi_configuration

\* A thermocycler and a heater-shaker loaded together.
C13_Witness ==
    /\ \E m \in DOMAIN modules : modules[m].model = "thermocyclerModuleV2"
    /\ \E m \in DOMAIN modules : modules[m].model = "heaterShakerModuleV1"
    /\ deck_last.op = "load_module"
    /\ deck_last.result = "return"

\* A module of another kind loaded.
C13_WitnessOther ==
    /\ \E m \in DOMAIN modules : modules[m].model = "temperatureModuleV2"
    /\ deck_last.op = "load_module"
    /\ deck_last.result = "return"

\* C14: a thermocycler is always mapped to the one fixed front slot whatever
\* slot it was loaded in, so any two loaded thermocyclers are mapped to the
\* same deck slot.
C14_ThermocyclersShareFrontSlot ==
    \A m1, m2 \in DOMAIN modules :
        (IsThermocycler(m1) /\ IsThermocycler(m2)) =>
            \A e1 \in _map_module(labware, modules, m1),
               e2 \in _map_module(labware, modules, m2) : e1.slot = e2.slot

\* =============================================== pipette-movement claims

MoveChecked == move # NoMove

IsColumnLayout == move.engine_state.nozzle_layout_type = "COLUMN"
TargetColumn == SlotColumn(move.engine_state.ancestor_slot)
EastOfTarget == get_east_slot(move.engine_state.ancestor_slot)

\* The height the east neighbour may reach: the pipetting point's Z plus the
\* attached tip's length (0 without a tip) plus 10.
EastLimit ==
    move.engine_state.well_position_z
    + (IF move.engine_state.attached_tip = {} THEN 0
       ELSE CHOOSE t \in move.engine_state.attached_tip : TRUE)
    + 10

\* There is a slot east of the target and its highest Z is above the limit.
TallerEastNeighbour ==
    \E e \in EastOfTarget : move.engine_state.highest_z_in_slot[e] > EastLimit

RaisedPartialTip == move.raised = "PartialTipMovementNotAllowedError"

\* C15: with a Column layout and the target's ancestor slot in deck column 1,
\* the check raises PartialTipMovementNotAllowedError for being out of bounds,
\* whatever the east neighbour's height, the well position and the tip are:
\* the column-1 rule is decided before the east neighbour is looked at.
C15_ColumnOneRaises ==
    (MoveChecked /\ IsColumnLayout /\ TargetColumn = 1) =>
        (RaisedPartialTip /\ move.message = "out of bounds")

\* A column-1 target refused as out of bounds although its east neighbour is
\* above the limit.
C15_Witness ==
    /\ MoveChecked
    /\ IsColumnLayout
    /\ TargetColumn = 1
    /\ TallerEastNeighbour
    /\ RaisedPartialTip
    /\ move.message = "out of bounds"

\* C16: with a Column layout, a target in deck column 2 or 3 and no taller
\* neighbour to the east, the check returns without raising any error, for a
\* column-3 target as well as for a column-2 target.
C16_ReturnsWithoutTallerEast ==
    (MoveChecked /\ IsColumnLayout /\ TargetColumn \in {2, 3} /\ ~TallerEastNeighbour) =>
        move.raised = "None"

\* C17: with a Column layout and a target outside column 1, the check raises
\* PartialTipMovementNotAllowedError exactly when the highest Z of the slot
\* east of the target is strictly above the limit; an east height equal to
\* the limit returns.
C17_EastNeighbourRule ==
    (MoveChecked /\ IsColumnLayout /\ TargetColumn # 1) =>
        /\ RaisedPartialTip <=> TallerEastNeighbour
        /\ RaisedPartialTip => move.message = "collision"
        /\ \A e \in EastOfTarget :
              move.engine_state.highest_z_in_slot[e] <= EastLimit => move.raised = "None"

\* A column-2 target whose east neighbour is exactly as high as the limit,
\* with a tip attached: the check returns.
C17_Witness ==
    /\ MoveChecked
    /\ IsColumnLayout
    /\ TargetColumn = 2
    /\ move.engine_state.attached_tip # {}
    /\ \E e \in EastOfTarget : move.engine_state.highest_z_in_slot[e] = EastLimit
    /\ move.raised = "None"

\* A column-2 target whose east neighbour is one above the limit: refused.
C17_WitnessRaised ==
    /\ MoveChecked
    /\ IsColumnLayout
    /\ TargetColumn = 2
    /\ \E e \in EastOfTarget : move.engine_state.highest_z_in_slot[e] = EastLimit + 1
    /\ RaisedPartialTip

\* C18: with a nozzle layout that is not Column (Single, Row, Quadrant or
\* Empty) the check never raises, whatever the target slot, the well and the
\* heights of the neighbouring slots are.
C18_OtherLayoutsNeverRaise ==
    (MoveChecked /\ ~IsColumnLayout) => move.raised = "None"

\* A Row layout aimed at a column-1 target with a taller east neighbour.
C18_Witness ==
    /\ MoveChecked
    /\ move.engine_state.nozzle_layout_type = "ROW"
    /\ TargetColumn = 1
    /\ TallerEastNeighbour
    /\ move.raised = "None"

\* The primary nozzle of the front-most row.
IsFrontPrimaryNozzle == move.engine_state.primary_nozzle = "H1"

\* C19: a Column layout whose primary nozzle is not the front-most one is
\* left unchecked: the check returns without raising unless the layout is
\* Column and the primary nozzle is the front-most one.
C19_NonFrontColumnUnchecked ==
    (MoveChecked /\ ~(IsColumnLayout /\ IsFrontPrimaryNozzle)) => move.raised = "None"

\* ============================================================ store claims

\* C20: create called while an engine is stored raises EngineConflictError
\* and leaves the stored engine and current_run_id as they were; with calls
\* made one at a time a stored engine is replaced by no other engine and no
\* further engine is constructed: it only goes away by a clear that succeeds.
C20_CreateConflict ==
    /\ []((store_last.op = "create" /\ store_last.engine_before # {}) =>
            /\ store_last.raised = "EngineConflictError"
            /\ _engine = store_last.engine_before
            /\ _run_id = store_last.run_id_before)
    /\ [][_engine # {} =>
            /\ engines' = engines
            /\ (_engine' # _engine =>
                    /\ _engine' = {}
                    /\ store_last'.op = "clear"
                    /\ store_last'.raised = "None")]_vars

\* create("run-id-2") refused while the engine of run-id-1 is stored.
C20_Witness ==
    /\ store_last.op = "create"
    /\ store_last.run_id = "run-id-2"
    /\ store_last.raised = "EngineConflictError"
    /\ _run_id = {"run-id-1"}
    /\ _engine # {}

\* A step that is a call on the store, not the engine changing its status
\* (which alone flips okay_to_clear and keeps the engine).
StoreCallStep == ~(okay_to_clear' # okay_to_clear /\ _engine' = _engine)

\* C21: with an engine stored, clear removes the engine and sets
\* current_run_id to None exactly when the engine's command state reports it
\* is okay to clear, and otherwise raises EngineConflictError and leaves the
\* engine and the run id as they were.  After a clear that succeeded the
\* engine property fails, and a create whose engine is constructed succeeds.
C21_Clear ==
    /\ [][(StoreCallStep /\ _engine # {} /\ store_last'.op = "clear") =>
            IF okay_to_clear
            THEN /\ store_last'.raised = "None"
                 /\ _engine' = {}
                 /\ current_run_id' = {}
                 /\ engine'.raised = "AssertionError"
            ELSE /\ store_last'.raised = "EngineConflictError"
                 /\ _engine' = _engine
                 /\ current_run_id' = current_run_id]_vars
    /\ [][(StoreCallStep /\ store_last.op = "clear" /\ store_last.raised = "None"
            /\ store_last'.op = "create" /\ store_last'.raised # "Exception") =>
                /\ store_last'.raised = "None"
                /\ engine'.raised = "None"
                /\ current_run_id' = {store_last'.run_id}]_vars

\* A clear refused because the engine of run-id-1 is still running.
C21_Witness ==
    /\ store_last.op = "clear"
    /\ store_last.raised = "EngineConflictError"
    /\ ~okay_to_clear
    /\ _engine # {}
    /\ current_run_id = {"run-id-1"}

\* A second engine stored by a create that followed a successful clear.
C21_WitnessCreateAfterClear ==
    /\ store_last.op = "create"
    /\ store_last.raised = "None"
    /\ store_last.engine_before = {}
    /\ _engine = {2}

\* ================================================== migration and cache claims

\* A step in which a provider loads its calibration.
LoadStep == last'.op \in {"__init__", "reset_robot_calibration"}

\* The attitude the legacy transform g migrates to: rows 0-1, columns 0-2 of
\* g over the row [0, 0, 1].
MigratedFrom(g) ==
    NdArray(<<3, 3>>, <<At(g, 1, 1), At(g, 1, 2), At(g, 1, 3),
                        At(g, 2, 1), At(g, 2, 2), At(g, 2, 3),
                        0, 0, 1>>)

\* C22: a load saves to the storage exactly when no attitude record is stored
\* and the legacy transform validates as OK; it then stores the migrated
\* attitude with source legacy and returns that record.  A stored record is
\* returned as it is whatever the legacy data, a legacy transform that does
\* not validate as OK is never saved, and with a record stored (so after a
\* migration) no load saves again.
C22_MigrateOnce ==
    [][LoadStep =>
        /\ (storage' # storage) <=> (storage = {} /\ LegacyValidatesOK)
        /\ (storage = {} /\ LegacyValidatesOK) =>
              /\ \E rec \in storage' :
                    /\ storage' = {rec}
                    /\ rec.source = "legacy"
                    /\ rec.attitude = MigratedFrom(CHOOSE g \in legacy : TRUE)
              /\ robot_calibration'[last'.p] = LoadedFrom(storage')
              /\ robot_calibration'[last'.p].source = "legacy"
        /\ storage # {} =>
              /\ storage' = storage
              /\ robot_calibration'[last'.p] = LoadedFrom(storage)
      ]_vars

\* A reset that loaded the record an earlier load had migrated.
C22_Witness ==
    /\ last.op = "reset_robot_calibration"
    /\ \E rec \in storage : rec.source = "legacy"
    /\ robot_calibration[last.p].source = "legacy"
    /\ LegacyValidatesOK

\* A stored user record loaded although the legacy transform validates as OK.
C22_WitnessPrecedence ==
    /\ last.op = "__init__"
    /\ \E rec \in storage : rec.source = "user"
    /\ robot_calibration[last.p].source = "user"
    /\ LegacyValidatesOK

\* C23: when the new item maps to nothing (a new labware on a module, on
\* another labware or off-deck) check() returns without raising and without
\* examining the existing items, whatever is already on the deck.
C23_NewItemExcluded ==
    (deck_last.op = "load_labware" /\ deck_last.location.kind # "DeckSlotLocation") =>
        /\ deck_last.result = "return"
        /\ ~deck_last.examined
        /\ deck_last.blame = {}

\* A labware loaded onto a module while another labware sits in a slot.
C23_Witness ==
    /\ deck_last.op = "load_labware"
    /\ deck_last.location.kind = "ModuleLocation"
    /\ deck_last.result = "return"
    /\ ~deck_last.examined
    /\ \E l \in DOMAIN labware : labware[l].location.kind = "DeckSlotLocation"
    /\ Cardinality(ExistingIds) = 3

\* The latest call to return was a validate_calibration that began and ended
\* while no set or reset was under way, and none is under way now.
ValidatedAfterwards == last.op = "validate_calibration" /\ pending = {} /\ clean

ValidationIsCurrent ==
    last.ret = validate_attitude_deck_calibration(robot_calibration[last.p])

\* C24 as stated: with validate_calibration free to run between the steps of
\* a set or reset, every validate_calibration made once the set or reset has
\* finished returns the validation of the calibration the provider holds.
C24_NoStaleResult == ValidatedAfterwards => ValidationIsCurrent

\* C24, amended: a validate_calibration made once the set or reset has
\* finished returns the validation of the calibration the provider holds,
\* provided no validate_calibration overlapped that set or reset (none was
\* under way at its cache_clear and none ran before its assignment).
C24_CurrentUnlessRaced == (ValidatedAfterwards /\ ~raced) => ValidationIsCurrent

\* A validation computed after a set that no validate_calibration ran into.
C24_Witness ==
    /\ ValidatedAfterwards
    /\ ~raced
    /\ robot_calibration[last.p].source = "user"
    /\ last.ret = OK

\* The stale case: a validate_calibration after a set that one ran into
\* returns what held for the replaced calibration.
C24_WitnessStale ==
    /\ ValidatedAfterwards
    /\ raced
    /\ ~ValidationIsCurrent

\* C25: the memoized validation of a provider is not discarded by calls on
\* another provider: a provider that has validated since its own last
\* construction, set or reset still has its result in the cache, so its next
\* validate_calibration does not recompute.
C25_MemoSurvivesOtherProviders ==
    \A p \in DOMAIN memo :
        memo[p] # "none" => [key |-> p, val |-> memo[p]] \in cache

\* The latest call to end was a wait_for_is_running.
WaitEnded == exec_last.op = "wait_for_is_running"

\* C26: wait_for_is_running returns only while the state is RUNNING: a call
\* that returned did so with the state RUNNING (never PAUSED), and a call that
\* ended with the state CANCELLED raised ExecutionCancelledError.
C26_ReturnsOnlyWhileRunning ==
    WaitEnded =>
        /\ exec_last.raised = "none" => exec_last.state_before = "RUNNING"
        /\ exec_last.state_before = "CANCELLED" =>
                exec_last.raised = ExecutionCancelledError

\* A coroutine is inside wait_for_is_running and a resume, reset or cancel
\* has not yet made it ready.
StillWaiting(task) == waiters[task].pc = "waiting"

\* C27: a coroutine blocked in wait_for_is_running is released once resume,
\* reset or cancel is called: none of the three leaves it blocked, a released
\* coroutine always ends its call, by returning only after a resume or reset
\* and by raising ExecutionCancelledError only after a cancel.
C27_BlockedIsReleased ==
    /\ [](\A task \in Tasks :
            StillWaiting(task) => (waiters[task].since = {} /\ _state = "PAUSED"))
    /\ []((WaitEnded /\ exec_last.blocked) =>
            /\ exec_last.raised = "none" =>
                    exec_last.since \cap {"resume", "reset"} # {}
            /\ exec_last.raised = ExecutionCancelledError =>
                    "cancel" \in exec_last.since)
    /\ \A task \in Tasks :
            (waiters[task].pc = "notified") ~> (waiters[task].pc = "idle")

\* A coroutine that blocked, saw a resume and then a cancel, and raised.
C27_Witness ==
    /\ WaitEnded
    /\ exec_last.blocked
    /\ exec_last.raised = ExecutionCancelledError
    /\ exec_last.since = {"resume", "cancel"}

\* A coroutine that blocked and returned after a reset alone.
C27_WitnessReturned ==
    /\ WaitEnded
    /\ exec_last.blocked
    /\ exec_last.raised = "none"
    /\ exec_last.since = {"reset"}

\* C28: once the state is CANCELLED, pause raises ExecutionCancelledError and
\* resume does nothing, both leaving the state CANCELLED, and the only step
\* that takes the state out of CANCELLED is a reset, to RUNNING.
C28_CancelledUntilReset ==
    /\ []((exec_last.op = "pause" /\ exec_last.state_before = "CANCELLED") =>
            (exec_last.raised = ExecutionCancelledError /\ _state = "CANCELLED"))
    /\ []((exec_last.op = "resume" /\ exec_last.state_before = "CANCELLED") =>
            (exec_last.raised = "none" /\ _state = "CANCELLED"))
    /\ [][(_state = "CANCELLED" /\ _state' # "CANCELLED") =>
            (exec_last'.op = "reset" /\ _state' = "RUNNING")]_vars

\* A pause refused on a cancelled execution manager.
C28_Witness ==
    /\ exec_last.op = "pause"
    /\ exec_last.state_before = "CANCELLED"
    /\ exec_last.raised = ExecutionCancelledError
    /\ _state = "CANCELLED"

\* A resume on a cancelled execution manager.
C28_WitnessResume ==
    /\ exec_last.op = "resume"
    /\ exec_last.state_before = "CANCELLED"
    /\ _state = "CANCELLED"

\* C29: with create calls interleaved at their await, a create succeeds only
\* on a store that holds no engine (so one engine at most is constructed and
\* stored until a clear), a create that ends on a store holding an engine
\* gets EngineConflictError and leaves it alone, and after a successful create
\* current_run_id is the run id of that call.
C29_OneCreateWins ==
    store_last.op = "create" =>
        /\ store_last.engine_before # {} =>
                /\ store_last.raised = EngineConflictError
                /\ _engine = store_last.engine_before
        /\ store_last.raised = "None" => current_run_id = {store_last.run_id}

\* C30: between operations current_run_id is set exactly when an engine is
\* stored, also after a create whose engine construction failed.
C30_RunIdIffEngine == (current_run_id # {}) <=> (_engine # {})

====
